---- MODULE Spec2Model ----
(***************************************************************************)
(* Proxy-checker: the concurrent probe engine of main.go.                  *)
(*                                                                         *)
(*   - startDynamicLimiter : the admission controller (200 ms ticks)       *)
(*   - worker              : admission step, per-endpoint probe loop,      *)
(*                           Outcome hand-over                             *)
(*   - main                : dispatcher goroutine, writer goroutine,       *)
(*                           wg.Wait / close(outcomes) / writeWg.Wait      *)
(*                                                                         *)
(* The specifications share the definitions below:                         *)
(*   Spec          the pipeline: dispatcher, workers, writer and main;     *)
(*   SpecAdmission the pipeline under the controller, FairAdmission the    *)
(*                 same with the fairness of the Go scheduler;             *)
(*   SpecLimiter   the controller goroutine alone, with the sample of each *)
(*                 tick kept in fdCount / used;                            *)
(*   SpecEndpoint  the protocol/credential loop of one worker on one Job,  *)
(*                 one testOne call per step.                              *)
(***************************************************************************)
EXTENDS Integers, Sequences, FiniteSets, TLC

\* ------------------------------------------------------------------ bounds
\* Number of worker goroutines started by main (the `workers` of main.go).
Workers == 3
\* Number of lines of the input file.
MaxLines == 3
\* The detected memory limit, in the unit memory is measured in here.
MemCap == 100
\* Longest list of default credentials loadAuthsOptional returns.
MaxAuths == 3
\* Number of dials the transports of one prober call start.
MaxDials == 2
\* Longest user name, password and ISP name, in characters.
MaxText == 2

Max(a, b) == IF a > b THEN a ELSE b
Min(a, b) == IF a < b THEN a ELSE b
\* max64 of main.go
max64(a, b) == IF a > b THEN a ELSE b

\* ---------------------------------------------------------------- limiter
\* The worker-count constants of startDynamicLimiter as they stand in the
\* source.
SourceSizes ==
    [hardCapFloor |-> 256, minLimitHigh |-> 128, minLimitLow |-> 64, stepUpMin |-> 8,
     queueMin |-> 128, queueMax |-> 4096]

\* The same quantities at the scale of the modelled pool.  A run of the
\* program has >= 1000 workers and minLimit >= 64; the pool here has Workers
\* goroutines, so the floors are brought down with it to keep the regime of
\* the program: minLimit < hardCap = workers, the limit moves in whole
\* workers between the two, and the channels hold fewer items than there are
\* workers.
PoolSizes ==
    [hardCapFloor |-> 2, minLimitHigh |-> 1, minLimitLow |-> 1, stepUpMin |-> 1,
     queueMin |-> 1, queueMax |-> 2]

\* Values detectFDLimit can return: 8192 (the fallback of both platforms)
\* and two common values of RLIMIT_NOFILE.
FdLimits == {1024, 8192, 65536}

\* startDynamicLimiter, lines 1383-1423: the values computed once, before the
\* loop.  int64(float64(x) * 0.35) is x * 35 \div 100 for the limits used.
LimiterBounds(workers, fdl, sz) ==
    LET hc    == IF workers < sz.hardCapFloor THEN sz.hardCapFloor ELSE workers
        w0    == (fdl * 35) \div 100
        w1    == IF w0 < 8000 THEN 8000 ELSE w0
        warn  == IF w1 > 50000 THEN 50000 ELSE w1
        h0    == (fdl * 45) \div 100
        h1    == IF h0 < warn + 2000 THEN warn + 2000 ELSE h0
        hard  == IF h1 > 80000 THEN 80000 ELSE h1
        m0    == Max(sz.minLimitHigh, workers \div 10)
        m1    == IF m0 > workers THEN workers ELSE m0
        minL  == IF m1 < sz.minLimitLow THEN sz.minLimitLow ELSE m1
    IN  [hardCap |-> hc, fdWarn |-> warn, fdHard |-> hard, minLimit |-> minL,
         stepUp |-> Max(sz.stepUpMin, workers \div 80)]

VARIABLES
    \* configuration, fixed by main before the goroutines start
    mode,        \* -mode
    \* locals of the controller goroutine
    fdLimit, memLimit, hardCap, minLimit, stepUp, fdWarn, fdHard,
    curLimit, paused,
    fdCount, used,   \* the sample of the last tick (SpecLimiter only)
    \* shared atomics
    dynLim, memPaused, activeW,
    done, okIP, okLine, fail, skip,
    failReasons, skipReasons,      \* the two CounterMaps
    \* dispatcher goroutine; dline is the line sc.Text() returned last
    \* (SpecDispatch)
    dpc, lineNo, njobs, dline,
    \* channels
    jobs, jobsClosed, outcomes, outClosed,
    \* worker goroutines
    wpc, wjob,
    \* writer goroutine
    wrpc, wrOc,
    \* main
    mpc,
    \* history: work items read so far (countWorkItems), per-Job events,
    \* whether active is above the limit since a reduction of the limit, and
    \* the pause a hard-FD tick started: "set" while the flag is set since
    \* such a tick, else "none" (SpecLimiter: "over" once it has been cleared)
    total, taken, sent, counted, transient, hardPause,
    \* the probe loop of one worker on one Job (SpecEndpoint)
    ep, probes,
    \* the sockets and conn-trackers of one prober call (SpecTracker)
    trk,
    \* the flags and the machine main starts on, and the -c it derives
    \* (SpecStartup)
    start,
    \* a Result, the line written for it and what parseProxyLine makes of
    \* the line (SpecRoundTrip)
    rt

limVars  == <<fdLimit, memLimit, hardCap, minLimit, stepUp, fdWarn, fdHard,
              curLimit, paused>>
smpVars  == <<fdCount, used>>
admVars  == <<dynLim, memPaused>>
cntVars  == <<done, okIP, okLine, fail, skip, failReasons, skipReasons>>
dispVars == <<dpc, lineNo, njobs, total, dline>>
chanVars == <<jobs, jobsClosed, outcomes, outClosed>>
wrkVars  == <<wpc, wjob>>
wrtVars  == <<wrpc, wrOc>>
histVars == <<taken, sent, counted>>
epVars   == <<ep, probes, trk, start, rt>>
vars == <<mode, limVars, smpVars, admVars, activeW, cntVars, dispVars, chanVars,
          wrkVars, wrtVars, mpc, histVars, transient, hardPause, epVars>>

\* fdResume, lines 1443-1446 (recomputed in every tick from fdWarn)
FdResume ==
    LET r == (fdWarn * 8) \div 10 IN IF r < 4000 THEN 4000 ELSE r

\* usedRatio > p/100 and fdRatio > p/100 (lines 1438, 1442), without floats
UsedAbove(u, p) == u * 100 > p * memLimit
FdAbove(fd, p)  == fd * 100 > p * fdLimit

\* The resume condition of lines 1491 and 1497.
ResumeOk_or(fd, u) == fd < FdResume \/ u * 100 < 65 * memLimit
ResumeOk(fd, u) == fd < FdResume /\ u * 100 < 65 * memLimit

\* The hard-FD row, lines 1452-1455: the limit it leaves.
HardRowLimit_scaled == max64(minLimit, (curLimit * 7) \div 10)
HardRowLimit == minLimit

\* The lowest row, lines 1478-1485: the limit it leaves.
LowRowLimit_uncapped == curLimit + stepUp
LowRowLimit ==
    IF curLimit < hardCap
    THEN (IF curLimit + stepUp > hardCap THEN hardCap ELSE curLimit + stepUp)
    ELSE curLimit

\* The if-chain of lines 1452-1486 for the sample (fd, u): the new curLimit,
\* whether the hard row set `paused`, and shouldPause.
AdjustLimit(fd, u) ==
    IF fd > fdHard THEN
        [cur |-> HardRowLimit, hard |-> TRUE, shouldPause |-> FALSE]
    ELSE IF fd > fdWarn THEN
        [cur |-> max64(minLimit, (curLimit * 8) \div 10), hard |-> FALSE,
         shouldPause |-> FALSE]
    ELSE IF UsedAbove(u, 88) \/ FdAbove(fd, 85) THEN
        [cur |-> max64(minLimit, (curLimit * 7) \div 10), hard |-> FALSE,
         shouldPause |-> TRUE]
    ELSE IF UsedAbove(u, 80) \/ FdAbove(fd, 80) THEN
        [cur |-> max64(minLimit, (curLimit * 8) \div 10), hard |-> FALSE,
         shouldPause |-> FALSE]
    ELSE IF UsedAbove(u, 70) \/ FdAbove(fd, 70) THEN
        [cur |-> max64(minLimit, (curLimit * 9) \div 10), hard |-> FALSE,
         shouldPause |-> FALSE]
    ELSE IF UsedAbove(u, 60) \/ FdAbove(fd, 60) THEN
        [cur |-> curLimit, hard |-> FALSE, shouldPause |-> FALSE]
    ELSE
        [cur |-> LowRowLimit, hard |-> FALSE, shouldPause |-> FALSE]

\* History: the transient that follows a reduction of the limit is over when
\* active is within the limit dl and no worker is between its comparison
\* (line 1606) and its increment (line 1613).
Settled(act, dl, pcs) == act <= dl /\ \A w \in DOMAIN pcs : pcs[w] # "incr"

LimiterTick_stickyPause(fd, u) ==
    LET a == AdjustLimit(fd, u)
        p == paused \/ a.hard
    IN  /\ curLimit' = a.cur
        /\ IF p THEN
              /\ memPaused' = 1
              /\ paused' = TRUE
           ELSE IF a.shouldPause THEN
              /\ memPaused' = 1
              /\ paused' = TRUE
           ELSE IF ResumeOk(fd, u) THEN
              /\ memPaused' = 0
              /\ paused' = FALSE
           ELSE
              /\ memPaused' = memPaused
              /\ paused' = FALSE
        /\ dynLim' = a.cur
        /\ transient' = ((transient \/ a.cur < dynLim) /\ ~Settled(activeW, a.cur, wpc))
        /\ UNCHANGED <<fdLimit, memLimit, hardCap, minLimit, stepUp, fdWarn, fdHard>>

\* One iteration of the controller loop (lines 1427-1501) for the sample
\* (fd, u): the if-chain, the store of memPaused (lines 1488-1499) and the
\* store of dynamicLimit (line 1501).  The workers only read the two atomics,
\* memPaused before dynamicLimit, so the two stores are taken as one step.
LimiterTick(fd, u) ==
    LET a == AdjustLimit(fd, u)
        p == paused \/ a.hard
    IN  /\ curLimit' = a.cur
        /\ IF p THEN
              /\ memPaused' = 1
              /\ paused' = ~ResumeOk(fd, u)
           ELSE IF a.shouldPause THEN
              /\ memPaused' = 1
              /\ paused' = TRUE
           ELSE IF ResumeOk(fd, u) THEN
              /\ memPaused' = 0
              /\ paused' = FALSE
           ELSE
              /\ memPaused' = memPaused
              /\ paused' = FALSE
        /\ dynLim' = a.cur
        /\ transient' = ((transient \/ a.cur < dynLim) /\ ~Settled(activeW, a.cur, wpc))
        /\ UNCHANGED <<fdLimit, memLimit, hardCap, minLimit, stepUp, fdWarn, fdHard>>

\* Samples a tick can read: readTCPConnCount around each threshold and at 86 %
\* of the descriptor limit (never above the limit itself), and RSS at 50..90 %
\* of the memory limit.
FdSamples ==
    {fd \in {0, FdResume - 1, FdResume, fdWarn, fdWarn + 1, fdHard, fdHard + 1,
              (fdLimit * 86) \div 100} :
        fd >= 0 /\ fd <= fdLimit}
UsedSamples == {(memLimit * p) \div 100 : p \in {50, 62, 66, 75, 85, 90}}

\* The state after main has called startDynamicLimiter (lines 1893-1894,
\* 1383-1425) for a detected descriptor limit fdl.
LimiterInit(fdl) ==
    LET b == LimiterBounds(Workers, fdl, PoolSizes)
    IN  /\ fdLimit = fdl
        /\ memLimit = MemCap
        /\ hardCap = b.hardCap
        /\ minLimit = b.minLimit
        /\ stepUp = b.stepUp
        /\ fdWarn = b.fdWarn
        /\ fdHard = b.fdHard
        /\ curLimit = b.hardCap
        /\ paused = FALSE
        /\ dynLim = b.hardCap
        /\ memPaused = 0
        /\ fdCount = 0
        /\ used = 0
        /\ transient = FALSE
        /\ hardPause = "none"

\* ------------------------------------------------------- error classifier
\* An error is the set of the properties classifyErr and its helpers test:
\* the substrings of the lower-cased message, "timeout" for isTimeoutErr,
\* "op=dial" for a *net.OpError with Op == "dial", and "code=407" / "code=401"
\* for a message whose first run of three digits is that status.  NoErr is a
\* nil error.
NoErr == {"<nil>"}

\* isHTTPSClientGotHTTP, lines 950-956
isHTTPSClientGotHTTP(err) == "server gave http response to https client" \in err

\* parseStatusFromText + isAuthStatus (lines 677-688, 890-892): the message
\* carries a status code and it is 407 or 401
HasAuthStatus(err) == "code=407" \in err \/ "code=401" \in err

\* isDialLikeErr, lines 869-888
isDialLikeErr(err) ==
    \/ "op=dial" \in err
    \/ "connection refused" \in err
    \/ "no route to host" \in err
    \/ "network is unreachable" \in err
    \/ "connection reset" \in err
    \/ "broken pipe" \in err

\* classifyErr, lines 894-948
classifyErr(err) ==
    IF err = NoErr THEN ""
    ELSE IF isHTTPSClientGotHTTP(err) THEN "https_to_http"
    ELSE IF "connect failed" \in err THEN
        (IF HasAuthStatus(err) THEN "auth" ELSE "connect_fail")
    ELSE IF "preflight non-204" \in err THEN
        (IF HasAuthStatus(err) THEN "auth" ELSE "non204")
    ELSE IF "proxy authentication" \in err \/ "407" \in err THEN "auth"
    ELSE IF "timeout" \in err THEN "timeout"
    ELSE IF "tls" \in err \/ "handshake" \in err THEN "tls"
    ELSE IF "no such host" \in err THEN "dns"
    ELSE IF isDialLikeErr(err) THEN
        (IF "connection refused" \in err THEN "refused"
         ELSE IF "no route to host" \in err \/ "network is unreachable" \in err
              THEN "unreachable"
         ELSE IF "connection reset" \in err THEN "reset"
         ELSE "dial")
    ELSE IF "ipinfo" \in err \/ "unmarshal" \in err \/ "json" \in err THEN "ipinfo"
    ELSE IF "eof" \in err THEN "eof"
    ELSE "other"

\* The priority list of choosePrimaryReason, lines 1704-1718
priority ==
    <<"auth", "ipinfo", "non204", "connect_fail", "tls", "timeout", "refused",
      "unreachable", "reset", "dial", "dns", "eof", "other">>

\* choosePrimaryReason, lines 1703-1736
choosePrimaryReason(reasons, lastErr) ==
    LET seen == {reasons[i] : i \in 1..Len(reasons)} \ {""}
        hits == {i \in 1..Len(priority) : priority[i] \in seen}
    IN  IF hits # {} THEN priority[CHOOSE i \in hits : \A j \in hits : i <= j]
        ELSE IF lastErr # NoErr THEN classifyErr(lastErr)
        ELSE "other"

\* ---------------------------------------------------- per-endpoint machine
Modes == {"http", "https", "socks5", "s5", "all", "auto"}

\* guessProxyOrder, lines 638-653 (the port of a parsed host:port)
guessProxyOrder(port) ==
    IF port \in {"443", "8443", "9443"} THEN <<"https", "http", "socks5">>
    ELSE IF port \in {"80", "8080", "3128", "8000", "8888"}
         THEN <<"http", "https", "socks5">>
    ELSE IF port = "1080" THEN <<"socks5", "http", "https">>
    ELSE <<"https", "http", "socks5">>

guessProxyOrderWithScheme_noS5(port, scheme) ==
    IF scheme = "http" THEN <<"http", "https", "socks5">>
    ELSE IF scheme = "https" THEN <<"https", "http", "socks5">>
    ELSE IF scheme = "socks5" THEN <<"socks5", "http", "https">>
    ELSE guessProxyOrder(port)

\* guessProxyOrderWithScheme, lines 655-667
guessProxyOrderWithScheme(port, scheme) ==
    IF scheme = "http" THEN <<"http", "https", "socks5">>
    ELSE IF scheme = "https" THEN <<"https", "http", "socks5">>
    ELSE IF scheme \in {"socks5", "s5"} THEN <<"socks5", "http", "https">>
    ELSE guessProxyOrder(port)

TypesFor_hintFirst(m, job) ==
    IF job.SchemeHint # "" THEN guessProxyOrderWithScheme(job.port, job.SchemeHint)
    ELSE IF m = "http" THEN <<"http">>
    ELSE IF m = "https" THEN <<"https">>
    ELSE IF m \in {"socks5", "s5"} THEN <<"socks5">>
    ELSE guessProxyOrderWithScheme(job.port, job.SchemeHint)
\* worker, lines 1630-1644: the protocols tried for a Job
TypesFor(m, job) ==
    IF m = "http" THEN <<"http">>
    ELSE IF m = "https" THEN <<"https">>
    ELSE IF m \in {"socks5", "s5"} THEN <<"socks5">>
    ELSE guessProxyOrderWithScheme(job.port, job.SchemeHint)

\* A nil *Auth; the empty credential Auth{} is "".
NilAuth == "<nil>"

RECURSIVE NonEmptyAuths(_)
NonEmptyAuths(auths) ==
    IF auths = <<>> THEN <<>>
    ELSE IF Head(auths) = "" THEN NonEmptyAuths(Tail(auths))
    ELSE <<Head(auths)>> \o NonEmptyAuths(Tail(auths))

AuthListFor_inlineAdded(job, auths) ==
    IF job.InlineAuth # NilAuth THEN
        (IF job.InlineAuth # "" THEN <<"", job.InlineAuth>> ELSE <<"">>)
            \o NonEmptyAuths(auths)
    ELSE <<"">> \o NonEmptyAuths(auths)

\* worker, lines 1615-1628: the credentials tried for a Job
AuthListFor(job, auths) ==
    IF job.InlineAuth # NilAuth THEN
        (IF job.InlineAuth # "" THEN <<"", job.InlineAuth>> ELSE <<"">>)
    ELSE <<"">> \o NonEmptyAuths(auths)

\* isLikelyPlainHTTPProxy, lines 958-967
isLikelyPlainHTTPProxy(err) ==
    /\ err # NoErr
    /\ \/ isHTTPSClientGotHTTP(err)
       \/ "first record does not look like a tls handshake" \in err
       \/ "tls: handshake failure" \in err
       \/ "tls: internal error" \in err

\* testHTTPSProxy, lines 1093-1103: rTls is what the request through the TLS
\* connection to the proxy returned and rHttp what testHTTPProxy returns for
\* the same address and credential
UsesFallback(rTls) == ~rTls.ok /\ isLikelyPlainHTTPProxy(rTls.err)
testHTTPSProxy(rTls, rHttp) == IF UsesFallback(rTls) THEN rHttp ELSE rTls

\* testOne, lines 1176-1191: the prober called for a protocol
RunProber(tp, r, rHttp) ==
    IF tp = "https" THEN testHTTPSProxy(r, rHttp) ELSE r

\* resultToLine, lines 1540-1565: the scheme and the userinfo of the line
resultToLine(r) ==
    [scheme |-> IF r.ProxyType = "SOCKS5" THEN "socks5"
                ELSE IF r.ProxyType = "HTTP" THEN "http"
                ELSE IF r.ProxyType = "HTTPS" THEN "https"
                ELSE "http",
     userinfo |-> r.Auth]

\* strings.ToUpper of the protocol, as testOne writes Result.ProxyType
ProxyTypeOf(tp) ==
    IF tp = "http" THEN "HTTP" ELSE IF tp = "https" THEN "HTTPS" ELSE "SOCKS5"

\* testOne, lines 1168-1197: the Result of one attempt, r being what the
\* prober returned (r.ok, and r.err when it failed)
testOne(tp, a, r) ==
    [ProxyType |-> ProxyTypeOf(tp), Auth |-> a, Success |-> r.ok,
     Err |-> IF r.ok THEN NoErr ELSE r.err]

\* line 1671: the classes that mark the endpoint unreachable
IsUnreachableClass(errClass) == errClass \in {"reset", "unreachable", "refused"}

\* lines 1654-1657: the remaining protocols are skipped
SkipRest_never(st) == FALSE
SkipRest(st) == st.ipUnreachable

\* lines 1677-1679: auto mode stops at the first protocol that succeeded
AutoStop_never(st) == FALSE
AutoStop_anyMode(st) == st.okThisType
AutoStop(st) == st.mode = "auto" /\ st.okThisType

\* lines 1651-1658: the head of the loop over types for index st.ti; the
\* credential list is never empty, so a protocol that is entered is probed
EpEnterType(st) ==
    IF st.ti > Len(st.types) THEN [st EXCEPT !.pc = "done"]
    ELSE IF SkipRest(st) THEN [st EXCEPT !.pc = "done"]
    ELSE [st EXCEPT !.okThisType = FALSE, !.ai = 1, !.pc = "probe"]

\* lines 1677-1680: after the loop over credentials
EpEndType(st) ==
    IF AutoStop(st) THEN [st EXCEPT !.pc = "done"]
    ELSE EpEnterType([st EXCEPT !.ti = st.ti + 1])

EpAfterProbe_noBreak(st, res) ==
    LET errClass == classifyErr(res.Err)
        st1 == IF res.Success
               THEN [st EXCEPT !.okThisType = TRUE,
                               !.successes = Append(st.successes, res)]
               ELSE [st EXCEPT !.lastErr = res.Err,
                               !.reasons = Append(st.reasons, errClass)]
    IN  IF ~res.Success /\ IsUnreachableClass(errClass)
        THEN EpEndType([st1 EXCEPT !.ipUnreachable = TRUE])
        ELSE IF st.ai < Len(st.authList)
             THEN [st1 EXCEPT !.ai = st.ai + 1]
             ELSE EpEndType(st1)

\* lines 1660-1675: what the loop does with the Result of one testOne call,
\* up to the next testOne call or the end of both loops
EpAfterProbe(st, res) ==
    IF res.Success THEN
        EpEndType([st EXCEPT !.okThisType = TRUE,
                             !.successes = Append(st.successes, res)])
    ELSE
        LET errClass == classifyErr(res.Err)
            st1 == [st EXCEPT !.lastErr = res.Err,
                              !.reasons = Append(st.reasons, errClass)]
        IN  IF IsUnreachableClass(errClass)
            THEN EpEndType([st1 EXCEPT !.ipUnreachable = TRUE])
            ELSE IF st.ai < Len(st.authList)
                 THEN [st1 EXCEPT !.ai = st.ai + 1]
                 ELSE EpEndType(st1)

\* lines 1615-1650: the loop state when a Job is taken up
EpStart(m, job, auths) ==
    EpEnterType([mode |-> m, types |-> TypesFor(m, job),
                 authList |-> AuthListFor(job, auths),
                 ti |-> 1, ai |-> 1, okThisType |-> FALSE,
                 successes |-> <<>>, reasons |-> <<>>, lastErr |-> NoErr,
                 ipUnreachable |-> FALSE, pc |-> "probe"])

\* lines 1682-1692: the Outcome sent for a finished loop
OutcomeOf(st) ==
    [Successes |-> st.successes,
     FailErr |-> st.lastErr,
     FailWhy |-> IF Len(st.successes) = 0
                 THEN choosePrimaryReason(st.reasons, st.lastErr) ELSE ""]

\* ------------------------------------------------- probes and their results
\* Errors a prober returns in the model, one per failure class used.
Err407     == {"ipinfo", "407"}
ErrTimeout == {"timeout"}
ErrRefused == {"ipinfo", "connection refused"}
ErrUnreach == {"ipinfo", "network is unreachable"}
ErrReset   == {"ipinfo", "connection reset"}
\* "http: server gave HTTP response to HTTPS client", and a message with none
\* of the substrings classifyErr looks for
ErrGotHTTP == {"ipinfo", "server gave http response to https client"}
ErrOther   == {"malformed http response"}

Ok == [ok |-> TRUE]
Failed(e) == [ok |-> FALSE, err |-> e]
ProbeResults ==
    {Ok} \cup {Failed(e) : e \in {Err407, ErrTimeout, ErrRefused, ErrUnreach, ErrReset,
                                  ErrGotHTTP, ErrOther}}

\* What parseProxyLine hands to the worker, as far as the probe loop reads it:
\* the scheme hint, the port of ProxyAddr and the inline credential.
JobAttrs ==
    [SchemeHint : {"", "http", "https", "socks5"},
     port : {"443", "8080", "1080", "9999"},
     InlineAuth : {NilAuth, "in"}]
\* What loadAuthsOptional returns: Auth{} alone when there is no auth file,
\* else the entries of the file.
AuthFiles == {<<"">>, <<"u1">>}

\* The Outcomes the probe loop can end with, for every result of every testOne
\* call it makes from st on.
RECURSIVE EpOutcomes(_)
EpOutcomes(st) ==
    IF st.pc = "done" THEN {OutcomeOf(st)}
    ELSE UNION {EpOutcomes(EpAfterProbe(st,
                    testOne(st.types[st.ti], st.authList[st.ai],
                            RunProber(st.types[st.ti], r, r)))) :
                r \in {Ok, Failed(ErrRefused)}}

\* writer, lines 1987-1998: the lines written for an Outcome
WrittenLines(oc) ==
    [k \in 1..Len(oc.Successes) |-> resultToLine(oc.Successes[k])]

\* What the writer reads of an Outcome: len(Successes) and FailWhy.
Summary(oc) == [n |-> Len(oc.Successes), why |-> oc.FailWhy]

PipeOutcomes ==
    [m \in Modes |->
        {Summary(oc) : oc \in UNION {EpOutcomes(EpStart(m, j, <<"">>)) :
            j \in {[SchemeHint |-> "", port |-> "443", InlineAuth |-> a] :
                   a \in {NilAuth, "in"}}}}]

\* ------------------------------------------------------------ the pipeline
\* jobQueueSize, line 1911
JobQueueSize(workers, sz) == Min(Max(sz.queueMin, workers \div 4), sz.queueMax)
QueueCap == JobQueueSize(Workers, PoolSizes)

W == 1..Workers
JobIds == 1..MaxLines
NoOutcome == [job |-> 0, n |-> 0, why |-> ""]

Inc_stored(cm, key) ==
    IF key = "" THEN cm
    ELSE [k \in DOMAIN cm \cup {key} |-> IF k = key THEN 1 ELSE cm[k]]
\* CounterMap.Inc, lines 478-484
Inc(cm, key) ==
    IF key = "" THEN cm
    ELSE IF key \in DOMAIN cm THEN [cm EXCEPT ![key] = @ + 1]
    ELSE [k \in DOMAIN cm \cup {key} |-> IF k = key THEN 1 ELSE cm[k]]

\* No line read yet.
NoLine == [body |-> "", pad |-> FALSE, host |-> "<none>"]

\* --- dispatcher goroutine, lines 2025-2075.  The input file is read line by
\* line; what the next line is, is chosen when it is read.
DispBlank_counted ==
    /\ dpc = "scan" /\ lineNo < MaxLines
    /\ (lineNo + 1 < MaxLines \/ total >= 1)
    /\ lineNo' = lineNo + 1
    /\ done' = done + 1
    /\ UNCHANGED <<dpc, njobs, total, okIP, okLine, fail, skip, failReasons,
                   skipReasons, chanVars>>

\* a blank or #-line, lines 2039-2042
DispBlank ==
    /\ dpc = "scan" /\ lineNo < MaxLines
    /\ (lineNo + 1 < MaxLines \/ total >= 1)   \* main exits on a file without work items (line 1841)
    /\ lineNo' = lineNo + 1
    /\ UNCHANGED <<dpc, njobs, total, cntVars, chanVars>>

DispBad_noReason ==
    /\ dpc = "scan" /\ lineNo < MaxLines
    /\ lineNo' = lineNo + 1
    /\ total' = total + 1
    /\ skip' = skip + 1
    /\ dpc' = "skipDone"
    /\ UNCHANGED <<njobs, done, okIP, okLine, fail, failReasons, skipReasons,
                   chanVars>>

\* a line parseProxyLine rejects, lines 2044-2047 (done is added in DispSkipDone)
DispBad ==
    /\ dpc = "scan" /\ lineNo < MaxLines
    /\ lineNo' = lineNo + 1
    /\ total' = total + 1
    /\ skip' = skip + 1
    /\ skipReasons' = Inc(skipReasons, "bad_line")
    /\ dpc' = "skipDone"
    /\ UNCHANGED <<njobs, done, okIP, okLine, fail, failReasons, chanVars>>

\* an endpoint the CDN table matches, lines 2052-2058
DispCdn(provider) ==
    /\ dpc = "scan" /\ lineNo < MaxLines
    /\ lineNo' = lineNo + 1
    /\ total' = total + 1
    /\ skip' = skip + 1
    /\ skipReasons' = Inc(skipReasons, "cdn_" \o provider)
    /\ dpc' = "skipDone"
    /\ UNCHANGED <<njobs, done, okIP, okLine, fail, failReasons, chanVars>>

\* atomic.AddUint64(&done, 1); continue -- lines 2048-2049 and 2059-2060
DispSkipDone_notCounted ==
    /\ dpc = "skipDone"
    /\ dpc' = "scan"
    /\ UNCHANGED <<lineNo, njobs, total, cntVars, chanVars>>
DispSkipDone ==
    /\ dpc = "skipDone"
    /\ done' = done + 1
    /\ dpc' = "scan"
    /\ UNCHANGED <<lineNo, njobs, total, okIP, okLine, fail, skip,
                   failReasons, skipReasons, chanVars>>

\* a line that parses to an endpoint to probe, lines 2044-2070: the Job is
\* built and sent.  jobs <- Job{...} blocks while the channel is full; the
\* dispatcher touches nothing shared between reading the line and sending, so
\* the line is read when the send can go through.
DispJob ==
    /\ dpc = "scan" /\ lineNo < MaxLines
    /\ Len(jobs) < QueueCap
    /\ lineNo' = lineNo + 1
    /\ total' = total + 1
    /\ njobs' = njobs + 1
    /\ jobs' = Append(jobs, njobs + 1)
    /\ UNCHANGED <<dpc, cntVars, jobsClosed, outcomes, outClosed>>

\* sc.Scan() returns false; defer close(jobs), line 2026
DispClose ==
    /\ dpc = "scan"
    /\ total >= 1
    /\ jobsClosed' = TRUE
    /\ dpc' = "closed"
    /\ UNCHANGED <<lineNo, njobs, total, cntVars, jobs, outcomes, outClosed>>

Dispatcher ==
    /\ \/ DispBlank \/ DispBad \/ DispCdn("cloudflare")
       \/ DispSkipDone \/ DispJob \/ DispClose
    /\ dline' = dline
    /\ UNCHANGED <<mode, limVars, smpVars, admVars, activeW, wrkVars, wrtVars, mpc,
                   histVars, transient, hardPause, epVars>>

\* --- worker goroutine, lines 1575-1701
\* line 1606: the comparison that admits the worker
Admit_offByOne(act, dl) == act + 1 < dl
Admit(act, dl) == act < dl

\* Workers blocked on the job channel are alike, so the one that receives or
\* sees the channel closed is taken to be the one with the lowest index.
FirstIdle(w) == \A v \in 1..(w - 1) : wpc[v] # "recv"

\* for job := range jobs, line 1592: a Job is received
WRecv_noDequeue(w) ==
    /\ wpc[w] = "recv" /\ jobs # <<>>
    /\ FirstIdle(w)
    /\ wjob' = [wjob EXCEPT ![w] = Head(jobs)]
    /\ taken' = [taken EXCEPT ![Head(jobs)] = @ + 1]
    /\ wpc' = [wpc EXCEPT ![w] = "pause"]
    /\ UNCHANGED <<admVars, activeW, chanVars, sent, counted, transient>>
WRecv(w) ==
    /\ wpc[w] = "recv" /\ jobs # <<>>
    /\ FirstIdle(w)
    /\ wjob' = [wjob EXCEPT ![w] = Head(jobs)]
    /\ jobs' = Tail(jobs)
    /\ taken' = [taken EXCEPT ![Head(jobs)] = @ + 1]
    /\ wpc' = [wpc EXCEPT ![w] = "pause"]
    /\ UNCHANGED <<admVars, activeW, jobsClosed, outcomes, outClosed, sent,
                   counted, transient>>

\* line 1592: the channel is closed and drained; defer wg.Done()
WExit(w) ==
    /\ wpc[w] = "recv" /\ jobs = <<>> /\ jobsClosed
    /\ FirstIdle(w)
    /\ wpc' = [wpc EXCEPT ![w] = "exited"]
    /\ UNCHANGED <<wjob, admVars, activeW, chanVars, histVars, transient>>

\* lines 1595-1598: the pause flag is read clear (while it is set the worker
\* sleeps 10 ms and reads it again)
WPause(w) ==
    /\ wpc[w] = "pause" /\ memPaused # 1
    /\ wpc' = [wpc EXCEPT ![w] = "check"]
    /\ UNCHANGED <<wjob, admVars, activeW, chanVars, histVars, transient>>

\* lines 1602-1609: dl := atomic.LoadInt64(dynLimit), then
\* atomic.LoadUint64(active) < uint64(dl); else sleep 2 ms and start the check
\* over.  The two loads read different variables and no step writes both, so
\* a step between them can be moved before or after the pair.
WCheck(w) ==
    /\ wpc[w] = "check"
    /\ wpc' = [wpc EXCEPT ![w] = IF dynLim <= 0 \/ Admit(activeW, dynLim)
                                 THEN "incr" ELSE "pause"]
    /\ UNCHANGED <<wjob, admVars, activeW, chanVars, histVars, transient>>

\* atomic.AddUint64(active, 1), line 1613
WIncr(w) ==
    /\ wpc[w] = "incr"
    /\ activeW' = activeW + 1
    /\ wpc' = [wpc EXCEPT ![w] = "send"]
    /\ transient' = (transient /\ ~Settled(activeW', dynLim, wpc'))
    /\ UNCHANGED <<wjob, admVars, chanVars, histVars>>

\* lines 1615-1692: the probe loop runs (it touches nothing shared but the
\* request counter) and its Outcome is sent; blocks while the channel is full
WSend(w) ==
    /\ wpc[w] = "send"
    /\ Len(outcomes) < QueueCap
    /\ \E oc \in PipeOutcomes[mode] :
          outcomes' = Append(outcomes, [job |-> wjob[w], n |-> oc.n, why |-> oc.why])
    /\ sent' = [sent EXCEPT ![wjob[w]] = @ + 1]
    /\ wpc' = [wpc EXCEPT ![w] = "dec"]
    /\ UNCHANGED <<wjob, admVars, activeW, jobs, jobsClosed, outClosed, taken,
                   counted, transient>>

WDec_twice(w) ==
    /\ wpc[w] = "dec"
    /\ activeW' = activeW - 2
    /\ wjob' = [wjob EXCEPT ![w] = 0]
    /\ wpc' = [wpc EXCEPT ![w] = "recv"]
    /\ transient' = (transient /\ ~Settled(activeW', dynLim, wpc'))
    /\ UNCHANGED <<admVars, chanVars, histVars>>
\* lines 1694-1699: the optional delay, then atomic.AddUint64(active, ^uint64(0)),
\* which subtracts 1 (a negative value here is the counter wrapped below zero)
WDec(w) ==
    /\ wpc[w] = "dec"
    /\ activeW' = activeW - 1
    /\ wjob' = [wjob EXCEPT ![w] = 0]
    /\ wpc' = [wpc EXCEPT ![w] = "recv"]
    /\ transient' = (transient /\ ~Settled(activeW', dynLim, wpc'))
    /\ UNCHANGED <<admVars, chanVars, histVars>>

Worker(w) ==
    /\ (WRecv(w) \/ WExit(w) \/ WPause(w) \/ WCheck(w) \/ WIncr(w)
            \/ WSend(w) \/ WDec(w))
    /\ UNCHANGED <<mode, limVars, smpVars, cntVars, dispVars, wrtVars, mpc,
                   hardPause, epVars>>

\* --- writer goroutine, lines 1974-2017
\* lines 1983-1986: the channel is closed and drained
WriterExit ==
    /\ wrpc = "recv" /\ outcomes = <<>> /\ outClosed
    /\ wrpc' = "exited"
    /\ UNCHANGED <<wrOc, cntVars, chanVars, counted>>

\* lines 1988-2008: an Outcome with n Successes and failure reason why is
\* counted as one ok endpoint and n ok lines, or else as one failure
CountOutcome_noElse(n, why) ==
    /\ okIP' = IF n > 0 THEN okIP + 1 ELSE okIP
    /\ okLine' = okLine + n
    /\ fail' = fail + 1
    /\ failReasons' = Inc(failReasons, why)
CountOutcome(n, why) ==
    IF n > 0
    THEN /\ okIP' = okIP + 1
         /\ okLine' = okLine + n
         /\ UNCHANGED <<fail, failReasons>>
    ELSE /\ fail' = fail + 1
         /\ failReasons' = Inc(failReasons, why)
         /\ UNCHANGED <<okIP, okLine>>

\* case oc, ok := <-outcomes, lines 1982-2008: an Outcome is received and
\* counted as okIP and okLine, or as fail with its failure reason (done is
\* added in WriterDone)
WriterRecv ==
    /\ wrpc = "recv" /\ outcomes # <<>>
    /\ wrOc' = Head(outcomes)
    /\ outcomes' = Tail(outcomes)
    /\ CountOutcome(Head(outcomes).n, Head(outcomes).why)
    /\ wrpc' = "done"
    /\ UNCHANGED <<done, skip, skipReasons, jobs, jobsClosed, outClosed, counted>>

\* atomic.AddUint64(&done, 1), line 2010
WriterDone ==
    /\ wrpc = "done"
    /\ done' = done + 1
    /\ counted' = [counted EXCEPT ![wrOc.job] = @ + 1]
    /\ wrOc' = NoOutcome
    /\ wrpc' = "recv"
    /\ UNCHANGED <<okIP, okLine, fail, skip, failReasons, skipReasons, chanVars>>

Writer ==
    /\ (WriterRecv \/ WriterExit \/ WriterDone)
    /\ UNCHANGED <<mode, limVars, smpVars, admVars, activeW, dispVars, wrkVars, mpc,
                   taken, sent, transient, hardPause, epVars>>

\* --- main, lines 2077-2090
MainCloseOutcomes_noWait ==
    /\ mpc = "wgWait"
    /\ outClosed' = TRUE
    /\ mpc' = "writeWait"
    /\ UNCHANGED <<jobs, jobsClosed, outcomes>>
\* wg.Wait(); close(outcomes)
MainCloseOutcomes ==
    /\ mpc = "wgWait"
    /\ \A w \in W : wpc[w] = "exited"
    /\ outClosed' = TRUE
    /\ mpc' = "writeWait"
    /\ UNCHANGED <<jobs, jobsClosed, outcomes>>

\* writeWg.Wait(); the summary line is printed and the process exits
MainFinish ==
    /\ mpc = "writeWait"
    /\ wrpc = "exited"
    /\ mpc' = "finished"
    /\ UNCHANGED chanVars

Main ==
    /\ (MainCloseOutcomes \/ MainFinish)
    /\ UNCHANGED <<mode, limVars, smpVars, admVars, activeW, cntVars, dispVars,
                   wrkVars, wrtVars, histVars, transient, hardPause, epVars>>

\* --- the controller goroutine beside the pipeline; it ends with the process.
\* One sample per row of the table of lines 1452-1486 that differs at the
\* scale of the pool: no pressure, the 0.60 row, the 0.88 row, warn, hard.
PressureSamples ==
    {<<0, (memLimit * 50) \div 100>>, <<0, (memLimit * 66) \div 100>>,
     <<0, (memLimit * 90) \div 100>>, <<fdWarn + 1, (memLimit * 50) \div 100>>,
     <<fdHard + 1, (memLimit * 50) \div 100>>}

Limiter ==
    /\ mpc # "finished"
    /\ \E s \in PressureSamples :
          /\ LimiterTick(s[1], s[2])
          /\ hardPause' = IF AdjustLimit(s[1], s[2]).hard THEN "set"
                          ELSE IF memPaused' = 0 THEN "none" ELSE hardPause
    /\ UNCHANGED <<mode, smpVars, activeW, cntVars, dispVars, chanVars, wrkVars,
                   wrtVars, mpc, histVars, epVars>>

EpIdle == [pc |-> "idle"]
\* No prober call is followed.
NoProber == [pc |-> "none"]
\* The start of main is not followed.
NoStart == [pc |-> "none"]
\* No written line is followed.
NoLineOut == [pc |-> "none"]

\* The pipeline as main leaves it at line 2075, every goroutine started.
PipeInit ==
    /\ activeW = 0
    /\ done = 0 /\ okIP = 0 /\ okLine = 0 /\ fail = 0 /\ skip = 0
    /\ failReasons = <<>> /\ skipReasons = <<>>
    /\ dpc = "scan" /\ lineNo = 0 /\ njobs = 0 /\ total = 0
    /\ dline = NoLine
    /\ jobs = <<>> /\ jobsClosed = FALSE /\ outcomes = <<>> /\ outClosed = FALSE
    /\ wpc = [w \in W |-> "recv"]
    /\ wjob = [w \in W |-> 0]
    /\ wrpc = "recv" /\ wrOc = NoOutcome
    /\ mpc = "wgWait"
    /\ taken = [j \in JobIds |-> 0]
    /\ sent = [j \in JobIds |-> 0]
    /\ counted = [j \in JobIds |-> 0]

\* The pipeline while the controller finds no pressure: with every sample
\* below the thresholds a tick leaves the limit at hardCap and the pause flag
\* clear, so the controller takes no step that changes the state.
Init ==
    /\ mode \in {"auto", "all"}
    /\ LimiterInit(65536)
    /\ PipeInit
    /\ ep = EpIdle /\ probes = <<>> /\ trk = NoProber /\ start = NoStart /\ rt = NoLineOut

Next == Dispatcher \/ (\E w \in W : Worker(w)) \/ Writer \/ Main

Spec == Init /\ [][Next]_vars

\* The pipeline under the controller, on an input file of endpoints to probe.
DispatcherJobs ==
    /\ (DispJob \/ DispClose)
    /\ dline' = dline
    /\ UNCHANGED <<mode, limVars, smpVars, admVars, activeW, wrkVars, wrtVars, mpc,
                   histVars, transient, hardPause, epVars>>

InitAdmission ==
    /\ mode = "auto"
    /\ LimiterInit(65536)
    /\ PipeInit
    /\ ep = EpIdle /\ probes = <<>> /\ trk = NoProber /\ start = NoStart /\ rt = NoLineOut

NextAdmission ==
    DispatcherJobs \/ (\E w \in W : Worker(w)) \/ Writer \/ Main \/ Limiter

SpecAdmission == InitAdmission /\ [][NextAdmission]_vars

FairAdmission ==
    /\ SpecAdmission
    /\ WF_vars(DispatcherJobs)
    /\ \A w \in W : WF_vars(Worker(w))
    /\ WF_vars(Writer)
    /\ WF_vars(Main)

\* The controller goroutine alone, the sample of each tick kept in fdCount and
\* used.
InitLimiter ==
    /\ mode = "auto"
    /\ \E fdl \in FdLimits : LimiterInit(fdl)
    /\ PipeInit
    /\ ep = EpIdle /\ probes = <<>> /\ trk = NoProber /\ start = NoStart /\ rt = NoLineOut

LimiterSample ==
    /\ \E fd \in FdSamples, u \in UsedSamples :
          /\ LimiterTick(fd, u)
          /\ fdCount' = fd
          /\ used' = u
          /\ hardPause' = IF AdjustLimit(fd, u).hard THEN "set"
                          ELSE IF memPaused' = 0 /\ hardPause = "set" THEN "over"
                          ELSE hardPause
    /\ UNCHANGED <<mode, activeW, cntVars, dispVars, chanVars, wrkVars, wrtVars,
                   mpc, histVars, epVars>>

SpecLimiter == InitLimiter /\ [][LimiterSample]_vars

\* The probe loop of one worker on one Job, one testOne call per step; probes
\* is the log of the calls made: protocol, credential, success, the class of
\* the error, and whether testHTTPSProxy fell back to testHTTPProxy.
InitEndpoint ==
    /\ mode \in Modes
    /\ LimiterInit(65536)
    /\ PipeInit
    /\ \E job \in JobAttrs, auths \in AuthFiles : ep = EpStart(mode, job, auths)
    /\ probes = <<>> /\ trk = NoProber /\ start = NoStart /\ rt = NoLineOut

\* lines 1660-1675: one call of testOne and what the loop does with its
\* Result, the prober of protocol tp returning one of Returns[tp]
EpProbeOf(Returns) ==
    /\ ep.pc = "probe"
    /\ \E r \in Returns[ep.types[ep.ti]], rHttp \in Returns["http"] :
          LET tp == ep.types[ep.ti]
              fallback == tp = "https" /\ UsesFallback(r)
              res == testOne(tp, ep.authList[ep.ai], RunProber(tp, r, rHttp))
          IN  /\ fallback \/ rHttp = r
              /\ ep' = EpAfterProbe(ep, res)
              /\ probes' = Append(probes,
                     [tp |-> tp, auth |-> ep.authList[ep.ai],
                      ok |-> res.Success, class |-> classifyErr(res.Err),
                      fallback |-> fallback])

AnyReturn == [tp \in {"http", "https", "socks5"} |-> ProbeResults]
EpProbe == EpProbeOf(AnyReturn)

\* lines 1682-1692: the Outcome is built and sent
EpFinish ==
    /\ ep.pc = "done"
    /\ ep' = [ep EXCEPT !.pc = "sent"]
    /\ UNCHANGED probes

\* lines 1982-2010: the writer receives the Outcome of this endpoint and
\* counts it
EpCount ==
    /\ ep.pc = "sent"
    /\ CountOutcome(Summary(OutcomeOf(ep)).n, Summary(OutcomeOf(ep)).why)
    /\ done' = done + 1
    /\ ep' = [ep EXCEPT !.pc = "counted"]
    /\ UNCHANGED <<probes, skip, skipReasons>>

NextEndpoint ==
    /\ \/ (EpProbe /\ UNCHANGED cntVars)
       \/ (EpFinish /\ UNCHANGED cntVars)
       \/ EpCount
    /\ UNCHANGED <<mode, limVars, smpVars, admVars, activeW, dispVars,
                   chanVars, wrkVars, wrtVars, mpc, histVars, transient,
                   hardPause, trk, start, rt>>

SpecEndpoint == InitEndpoint /\ [][NextEndpoint]_vars

\* The pipeline in every mode of -mode.
InitModes ==
    /\ mode \in Modes
    /\ LimiterInit(65536)
    /\ PipeInit
    /\ ep = EpIdle /\ probes = <<>> /\ trk = NoProber /\ start = NoStart /\ rt = NoLineOut

SpecModes == InitModes /\ [][Next]_vars

\* The worker's set-up of a Job, lines 1615-1644, on its own: every Job
\* parseProxyLine can hand over (any scheme hint, any port; an inline
\* credential is non-nil only when it is non-empty, lines 567-575) and every
\* list loadAuthsOptional can return.
SetupJobs ==
    [SchemeHint : {"", "http", "https", "socks5", "s5", "socks4"},
     port : {"443", "8443", "9443", "80", "8080", "3128", "8000", "8888",
             "1080", "9999"},
     InlineAuth : {NilAuth, "in"}]
SetupAuths == UNION {[1..n -> {"", "u1", "u2"}] : n \in 1..MaxAuths}

InitSetup ==
    /\ mode \in Modes
    /\ LimiterInit(65536)
    /\ PipeInit
    /\ \E job \in SetupJobs, auths \in SetupAuths :
          ep = [pc |-> "job", job |-> job, auths |-> auths]
    /\ probes = <<>> /\ trk = NoProber /\ start = NoStart /\ rt = NoLineOut

\* lines 1615-1644: authList and types are built for the Job
EpSetup ==
    /\ ep.pc = "job"
    /\ ep' = [pc |-> "setup", job |-> ep.job, auths |-> ep.auths,
              authList |-> AuthListFor(ep.job, ep.auths),
              types |-> TypesFor(mode, ep.job)]

NextSetup ==
    /\ EpSetup
    /\ UNCHANGED <<mode, limVars, smpVars, admVars, activeW, dispVars,
                   chanVars, wrkVars, wrtVars, mpc, histVars, transient,
                   hardPause, cntVars, probes, trk, start, rt>>

SpecSetup == InitSetup /\ [][NextSetup]_vars

\* ------------------------------------------------- the lines of the input
\* A line of the input file: whether white space surrounds it, what is left
\* without the white space (nothing, a #-comment, text parseProxyLine
\* rejects, or an endpoint), and the host of the endpoint.
InputLines ==
    {[body |-> b, pad |-> p, host |-> ""] : b \in {"", "#"}, p \in BOOLEAN}
    \cup {[body |-> "junk", pad |-> FALSE, host |-> ""]}
    \cup {[body |-> "endpoint", pad |-> FALSE, host |-> h] :
             h \in {"1.1.1.1", "151.101.1.1", "8.8.8.8", "example.com"}}

\* strings.TrimSpace, line 2039
TrimSpace(l) == [l EXCEPT !.pad = FALSE]

\* line 2040: raw == "" || strings.HasPrefix(raw, "#")
IsIgnoredLine(l) ==
    LET raw == TrimSpace(l)
    IN  (raw.body = "" /\ ~raw.pad) \/ raw.body = "#"

\* parseProxyLine, lines 537-636: whether it returns an error for the line
parseProxyLineErr(l) == l.body # "endpoint"

\* net.ParseIP, line 2054: nil for a host that is no IP literal
NilIP == "<nil>"
ParseIP(host) ==
    IF host \in {"1.1.1.1", "151.101.1.1", "8.8.8.8"} THEN host ELSE NilIP

\* The table loadCDNFilter built (-skip-cdn), as the addresses of each provider.
CdnTable ==
    {[Provider |-> "cloudflare", ips |-> {"1.1.1.1"}],
     [Provider |-> "fastly", ips |-> {"151.101.1.1"}]}

\* CDNFilter.Match, lines 315-333
Match(ip) ==
    IF ip = NilIP THEN [provider |-> "", ok |-> FALSE]
    ELSE IF \E e \in CdnTable : ip \in e.ips
         THEN [provider |-> (CHOOSE e \in CdnTable : ip \in e.ips).Provider,
               ok |-> TRUE]
         ELSE [provider |-> "", ok |-> FALSE]

\* lines 2052-2062: the endpoint is skipped as a CDN address
CdnSkips_anyIP(l) == ParseIP(l.host) # NilIP
CdnSkips(l) == ParseIP(l.host) # NilIP /\ Match(ParseIP(l.host)).ok

\* lines 2038-2070: one line is read and handled
DispLine(l) ==
    /\ dline' = l
    /\ \/ IsIgnoredLine(l) /\ DispBlank
       \/ ~IsIgnoredLine(l) /\ parseProxyLineErr(l) /\ DispBad
       \/ /\ ~IsIgnoredLine(l) /\ ~parseProxyLineErr(l) /\ CdnSkips(l)
          /\ DispCdn(Match(ParseIP(l.host)).provider)
       \/ /\ ~IsIgnoredLine(l) /\ ~parseProxyLineErr(l) /\ ~CdnSkips(l)
          /\ DispJob

\* The dispatcher on an input file of any lines.
DispatcherLines ==
    /\ \/ \E l \in InputLines : DispLine(l)
       \/ (DispSkipDone /\ dline' = dline)
       \/ (DispClose /\ dline' = dline)
    /\ UNCHANGED <<mode, limVars, smpVars, admVars, activeW, wrkVars, wrtVars, mpc,
                   histVars, transient, hardPause, epVars>>

InitDispatch ==
    /\ mode = "auto"
    /\ LimiterInit(65536)
    /\ PipeInit
    /\ ep = EpIdle /\ probes = <<>> /\ trk = NoProber /\ start = NoStart /\ rt = NoLineOut

NextDispatch ==
    DispatcherLines \/ (\E w \in W : Worker(w)) \/ Writer \/ Main

SpecDispatch == InitDispatch /\ [][NextDispatch]_vars

\* ------------------------------------------------- sockets of a prober call
\* One call of testHTTPProxy, testHTTPSProxy or testSocks5Proxy.  Each call
\* makes its own connTracker ("outer"); the testHTTPProxy call testHTTPSProxy
\* falls back to makes a second one ("inner").  http.Transport runs DialContext
\* in a goroutine of its own, which goes on when the request has returned on
\* its timeout.  A socket is "none", "dialing", "open", "closed" or "failed".
Socks == 1..MaxDials
Trackers == {"outer", "inner"}

\* connTracker.track, lines 282-287
track(conns, c) == conns \cup {c}
\* connTracker.remove, lines 289-293
remove(conns, c) == conns \ {c}
\* connTracker.closeAll, lines 295-302: every conn of the map is closed and
\* the map is replaced by an empty one
closeAll(t, tr) ==
    [t EXCEPT !.sock = [s \in Socks |->
                           IF s \in t.conns[tr] THEN "closed" ELSE t.sock[s]],
              !.conns[tr] = {}]

InitTracker ==
    /\ mode = "auto"
    /\ LimiterInit(65536)
    /\ PipeInit
    /\ ep = EpIdle /\ probes = <<>> /\ start = NoStart /\ rt = NoLineOut
    /\ \E tp \in {"http", "https", "socks5"} :
          trk = [tp |-> tp, pc |-> "request", cur |-> "outer",
                 conns |-> [t \in Trackers |-> {}],
                 sock |-> [s \in Socks |-> "none"],
                 own |-> [s \in Socks |-> "outer"]]

\* the Transport calls DialContext (lines 989, 1053, 1135)
TrkDial(s) ==
    /\ trk.pc \in {"request", "fallback"}
    /\ trk.sock[s] = "none"
    /\ \A r \in 1..(s - 1) : trk.sock[r] # "none"
    /\ trk' = [trk EXCEPT !.sock[s] = "dialing", !.own[s] = trk.cur]

\* the dial fails (lines 996-998, 1066-1068, 1137-1139)
TrkDialFail(s) ==
    /\ trk.pc # "none"
    /\ trk.sock[s] = "dialing"
    /\ trk' = [trk EXCEPT !.sock[s] = "failed"]

\* the dial returns a conn and DialContext registers it: tracker.track(conn),
\* lines 999, 1069, 1140
TrkDialDone(s) ==
    /\ trk.pc # "none"
    /\ trk.sock[s] = "dialing"
    /\ trk' = [trk EXCEPT !.sock[s] = "open",
                          !.conns[trk.own[s]] = track(@, s)]

\* trackedConn.Close, lines 268-271, called by the Transport or by
\* HTTPProxyDialer.DialContext on an error
TrkConnClose(s) ==
    /\ trk.pc # "none"
    /\ trk.sock[s] = "open"
    /\ trk' = [trk EXCEPT !.sock[s] = "closed",
                          !.conns[trk.own[s]] = remove(@, s)]

\* fetchIPInfoWithClient returns, with a result or on the timeout of the
\* request; lines 1093-1103: testHTTPSProxy may go on with testHTTPProxy, else
\* the deferred closeAll of the call runs (lines 984, 1048, 1114)
TrkFetchDone ==
    /\ trk.pc = "request"
    /\ \/ /\ trk.tp = "https"
          /\ trk' = [trk EXCEPT !.pc = "fallback", !.cur = "inner"]
       \/ trk' = [closeAll(trk, "outer") EXCEPT !.pc = "returned"]

\* the testHTTPProxy call of the fallback returns: its deferred closeAll
TrkFallbackDone ==
    /\ trk.pc = "fallback"
    /\ trk' = [closeAll(trk, "inner") EXCEPT !.pc = "unwind"]

\* testHTTPSProxy returns what the fallback returned: its deferred closeAll
TrkUnwind ==
    /\ trk.pc = "unwind"
    /\ trk' = [closeAll(trk, "outer") EXCEPT !.pc = "returned"]

NextTracker ==
    /\ \/ \E s \in Socks : TrkDial(s)
       \/ \E s \in Socks : TrkDialFail(s)
       \/ \E s \in Socks : TrkDialDone(s)
       \/ \E s \in Socks : TrkConnClose(s)
       \/ TrkFetchDone
       \/ TrkFallbackDone
       \/ TrkUnwind
    /\ UNCHANGED <<mode, limVars, smpVars, admVars, activeW, cntVars, dispVars,
                   chanVars, wrkVars, wrtVars, mpc, histVars, transient,
                   hardPause, ep, probes, start, rt>>

SpecTracker == InitTracker /\ [][NextTracker]_vars

\* ------------------------------------------------------- the start of main
capConcurrency_noFloor(requested, unsafe, cpuNum, memL, fdl) ==
    LET base0   == IF cpuNum >= 8 THEN cpuNum * 3000 ELSE cpuNum * 2000
        base    == IF base0 < 1000 THEN 1000 ELSE base0
        f0      == IF requested <= 0 THEN base ELSE requested
        byFd0   == ((fdl * 70) \div 100) \div 4
        maxByFD == IF byFd0 < 1000 THEN 1000 ELSE byFd0
        f1      == IF ~unsafe /\ fdl > 0 /\ f0 > maxByFD THEN maxByFD ELSE f0
        budget0 == (memL * 60) \div 100
        budget  == IF budget0 <= 0 THEN memL \div 2 ELSE budget0
        byMem0  == budget \div 128
        maxByMem == IF byMem0 < 1000 THEN 1000 ELSE byMem0
    IN  IF ~unsafe /\ memL > 0 /\ f1 > maxByMem THEN maxByMem ELSE f1

\* capConcurrency, lines 1267-1323.  Memory is in KiB here: memPerJobBytes is
\* 128 KiB (line 68), int64(float64(memLimit) * memBudgetRatio) with the
\* ratio 0.60 of line 67 is memLimit * 60 \div 100, and int((fdLimit * 70 /
\* 100) / fdPerJob) is as written.
capConcurrency(requested, unsafe, cpuNum, memL, fdl) ==
    LET base0   == IF cpuNum >= 8 THEN cpuNum * 3000 ELSE cpuNum * 2000
        base    == IF base0 < 1000 THEN 1000 ELSE base0
        f0      == IF requested <= 0 THEN base ELSE requested
        byFd0   == ((fdl * 70) \div 100) \div 4
        maxByFD == IF byFd0 < 1000 THEN 1000 ELSE byFd0
        f1      == IF ~unsafe /\ fdl > 0 /\ f0 > maxByFD THEN maxByFD ELSE f0
        budget0 == (memL * 60) \div 100
        budget  == IF budget0 <= 0 THEN memL \div 2 ELSE budget0
        byMem0  == budget \div 128
        maxByMem == IF byMem0 < 1000 THEN 1000 ELSE byMem0
        f2      == IF ~unsafe /\ memL > 0 /\ f1 > maxByMem THEN maxByMem ELSE f1
    IN  IF ~unsafe /\ f2 < 1000 THEN 1000 ELSE f2

\* The -c values, the CPU counts, the memory limits (KiB; 0 when none is
\* detected) and the descriptor limits main is started with.
StartFlags ==
    [requested : {0 - 1, 0, 1, 999, 1000, 1279, 1280, 5000, 200000},
     unsafe : BOOLEAN,
     cpuNum : {1, 8},
     memL : {0, 65536, 16777216},
     fdl : {1024, 8192, 65536}]

InitStartup ==
    /\ mode = "auto"
    /\ LimiterInit(65536)
    /\ PipeInit
    /\ ep = EpIdle /\ probes = <<>> /\ trk = NoProber /\ rt = NoLineOut
    /\ \E f \in StartFlags : start = [pc |-> "flags", flags |-> f, workers |-> 0]

\* line 1878: workers, memLimit, fdLimit := capConcurrency(*concurrency, *unsafeFlag)
StartCap ==
    /\ start.pc = "flags"
    /\ start' = [start EXCEPT
                    !.pc = "capped",
                    !.workers = capConcurrency(start.flags.requested,
                                    start.flags.unsafe, start.flags.cpuNum,
                                    start.flags.memL, start.flags.fdl)]
    /\ UNCHANGED <<limVars, admVars, transient>>

\* lines 1891-1895 and 1383-1423: without -unsafe the limiter is started and
\* computes its bounds from workers
StartLimiter ==
    /\ start.pc = "capped"
    /\ ~start.flags.unsafe
    /\ start.workers > 0
    /\ LET b == LimiterBounds(start.workers, start.flags.fdl, SourceSizes)
       IN  /\ fdLimit' = start.flags.fdl
           /\ hardCap' = b.hardCap
           /\ minLimit' = b.minLimit
           /\ stepUp' = b.stepUp
           /\ fdWarn' = b.fdWarn
           /\ fdHard' = b.fdHard
           /\ curLimit' = b.hardCap
           /\ dynLim' = b.hardCap
    /\ start' = [start EXCEPT !.pc = "limiter"]
    /\ UNCHANGED <<memLimit, paused, memPaused, transient>>

\* Samples for every row of the table of lines 1452-1486: each memory level
\* without descriptor pressure, and descriptor counts above fdWarn and fdHard.
RowSamples ==
    ({0} \X UsedSamples)
    \cup ((FdSamples \cap {fdWarn + 1, fdHard + 1}) \X {(memLimit * 50) \div 100})

\* lines 1427-1501: a tick of the controller main has started
StartTick ==
    /\ start.pc = "limiter"
    /\ \E s \in RowSamples : LimiterTick(s[1], s[2])
    /\ UNCHANGED start

NextStartup ==
    /\ StartCap \/ StartLimiter \/ StartTick
    /\ UNCHANGED <<mode, smpVars, activeW, cntVars, dispVars, chanVars,
                   wrkVars, wrtVars, mpc, histVars, hardPause,
                   ep, probes, trk, rt>>

SpecStartup == InitStartup /\ [][NextStartup]_vars

\* --------------------------------------------- a written line, parsed again
\* Text that net/url escapes or unescapes is a sequence of characters here.
Texts(chars) == UNION {[1..n -> chars] : n \in 0..MaxText}
HexChars == {"0", "1", "2", "3", "4", "5", "6", "7", "8", "9",
             "A", "B", "C", "D", "E", "F", "a", "b", "c", "d", "e", "f"}
NilText == <<"<nil>">>

\* url.UserPassword(...) in u.String(), lines 1560-1564: the characters of a
\* user name or password that are written as %XX
EscapeChar(c) ==
    IF c = "@" THEN <<"%", "4", "0">>
    ELSE IF c = ":" THEN <<"%", "3", "A">>
    ELSE IF c = "%" THEN <<"%", "2", "5">>
    ELSE <<c>>
RECURSIVE Escape(_)
Escape(s) == IF s = <<>> THEN <<>> ELSE EscapeChar(Head(s)) \o Escape(Tail(s))

\* url.Parse, line 557: text is unescaped only if every % is followed by two
\* hexadecimal digits; otherwise url.Parse returns an error
RECURSIVE ValidEscapes(_)
ValidEscapes(s) ==
    IF s = <<>> THEN TRUE
    ELSE IF Head(s) # "%" THEN ValidEscapes(Tail(s))
    ELSE /\ Len(s) >= 3 /\ s[2] \in HexChars /\ s[3] \in HexChars
         /\ ValidEscapes(SubSeq(s, 4, Len(s)))
DecodeHex(a, b) ==
    IF <<a, b>> = <<"4", "0">> THEN "@"
    ELSE IF <<a, b>> = <<"3", "A">> THEN ":"
    ELSE IF <<a, b>> = <<"2", "5">> THEN "%"
    ELSE "?"
RECURSIVE Unescape(_)
Unescape(s) ==
    IF s = <<>> THEN <<>>
    ELSE IF Head(s) # "%" THEN <<Head(s)>> \o Unescape(Tail(s))
    ELSE <<DecodeHex(s[2], s[3])>> \o Unescape(SubSeq(s, 4, Len(s)))

\* net.JoinHostPort, lines 570 and 1557 (Host of the URL), and its inverse
\* u.Hostname() / u.Port(), lines 558-559
HostPorts ==
    {[host |-> "1.2.3.4", port |-> "80"], [host |-> "::1", port |-> "8080"],
     [host |-> "example.com", port |-> "443"]}
JoinHostPort(host, port) ==
    IF host \in {"::1"} THEN "[" \o host \o "]:" \o port
    ELSE host \o ":" \o port
HostnameAndPort(text) ==
    CHOOSE hp \in HostPorts : JoinHostPort(hp.host, hp.port) = text

\* nonEmpty, lines 1533-1538
nonEmpty(s, d) == IF s = <<>> THEN d ELSE s

\* resultToLine, lines 1540-1565: the text of the line,
\* scheme://[userinfo@]host#[isp][ipType][country], by its parts
lineText(r) ==
    [scheme |-> resultToLine(r).scheme,
     userinfo |-> IF r.Auth.User # <<>> \/ r.Auth.Pass # <<>>
                  THEN Escape(r.Auth.User) \o <<":">> \o Escape(r.Auth.Pass)
                  ELSE NilText,
     host |-> r.ProxyAddr,
     frag |-> <<"[">> \o nonEmpty(r.ISP, <<"-">>)
                  \o <<"]", "[", "-", "]", "[", "-", "]">>]

\* u.User.Username() and u.User.Password(), lines 572-574: the userinfo is
\* cut at its first ":" and both parts are unescaped
FirstColon(s) ==
    IF \E i \in 1..Len(s) : s[i] = ":"
    THEN CHOOSE i \in 1..Len(s) : s[i] = ":" /\ \A j \in 1..(i - 1) : s[j] # ":"
    ELSE 0
Username(ui) ==
    Unescape(IF FirstColon(ui) = 0 THEN ui ELSE SubSeq(ui, 1, FirstColon(ui) - 1))
Password(ui) ==
    IF FirstColon(ui) = 0 THEN <<>>
    ELSE Unescape(SubSeq(ui, FirstColon(ui) + 1, Len(ui)))

\* parseProxyLine, lines 537-636, on a line of the form resultToLine writes.
\* The line holds "://": when url.Parse accepts it, lines 558-580 apply;
\* when url.Parse rejects it, the line is neither user@host, nor an IP, nor
\* host:port (net.SplitHostPort finds too many colons), and lines 627-630
\* take the whole line for a host if there is a default port.
parseProxyLineText(line, defaultPort) ==
    IF ValidEscapes(line.frag) THEN
        LET hp == HostnameAndPort(line.host)
            hasAuth == /\ line.userinfo # NilText
                       /\ (Username(line.userinfo) # <<>>
                           \/ Password(line.userinfo) # <<>>)
        IN  [err |-> FALSE,
             addr |-> JoinHostPort(hp.host, hp.port),
             schemeHint |-> line.scheme,
             hasAuth |-> hasAuth,
             inlineAuth |-> IF hasAuth
                            THEN [User |-> Username(line.userinfo),
                                  Pass |-> Password(line.userinfo)]
                            ELSE [User |-> <<>>, Pass |-> <<>>]]
    ELSE [err |-> defaultPort = "",
          addr |-> IF defaultPort = "" THEN ""
                   ELSE "[" \o line.scheme \o "://...]:" \o defaultPort,
          schemeHint |-> "", hasAuth |-> FALSE,
          inlineAuth |-> [User |-> <<>>, Pass |-> <<>>]]

\* A successful Result: its protocol, credential, address and ISP name.
SuccessResults ==
    [ProxyType : {"HTTP", "HTTPS", "SOCKS5"},
     Auth : [User : Texts({"u", "@", ":", "%"}), Pass : Texts({"p", ":", "%"})],
     ProxyAddr : {JoinHostPort(hp.host, hp.port) : hp \in HostPorts},
     ISP : Texts({"N", "%", "4"})]

InitRoundTrip ==
    /\ mode = "auto"
    /\ LimiterInit(65536)
    /\ PipeInit
    /\ ep = EpIdle /\ probes = <<>> /\ trk = NoProber /\ start = NoStart
    /\ \E r \in SuccessResults, dp \in {"", "443"} :
          rt = [pc |-> "result", res |-> r, defaultPort |-> dp]

\* writer, line 1990: writer.WriteString(resultToLine(r))
RtWrite ==
    /\ rt.pc = "result"
    /\ rt' = [pc |-> "written", res |-> rt.res, defaultPort |-> rt.defaultPort,
              line |-> lineText(rt.res)]

\* dispatcher, line 2044: the written line is an input line of a later run
RtParse ==
    /\ rt.pc = "written"
    /\ rt' = [pc |-> "parsed", res |-> rt.res, defaultPort |-> rt.defaultPort,
              line |-> rt.line,
              back |-> parseProxyLineText(rt.line, rt.defaultPort)]

NextRoundTrip ==
    /\ RtWrite \/ RtParse
    /\ UNCHANGED <<mode, limVars, smpVars, admVars, activeW, cntVars, dispVars,
                   chanVars, wrkVars, wrtVars, mpc, histVars, transient,
                   hardPause, ep, probes, trk, start>>

SpecRoundTrip == InitRoundTrip /\ [][NextRoundTrip]_vars

\* One worker from the receipt of a Job to its Outcome (lines 1592-1692), the
\* probe loop one testOne call per step, beside the controller.  ep.clearAt
\* is history: the number of testOne calls made when memPaused was last seen
\* clear by the admission loop or around a tick.
GateIdle == [pc |-> "gate", clearAt |-> 0]
\* The samples the controller draws here: a calm one and one above fdHard.
GateFds == {0, fdHard + 1}
\* The runs followed: every protocol without credentials, and one protocol
\* with an inline credential and an auth file of one entry.
GateRuns == {[mode |-> "all", inline |-> NilAuth, auths |-> <<"">>],
             [mode |-> "http", inline |-> "in", auths |-> <<"u1">>]}

InitGate ==
    /\ mode \in {run.mode : run \in GateRuns}
    /\ LimiterInit(65536)
    /\ PipeInit
    /\ ep = GateIdle
    /\ probes = <<>> /\ trk = NoProber /\ start = NoStart /\ rt = NoLineOut

\* lines 1594-1610: the admission loop is left when memPaused is clear and
\* active is below the limit (or the limit is not positive)
GateCheck ==
    /\ ep.pc = "gate"
    /\ memPaused = 0
    /\ dynLim <= 0 \/ Admit(activeW, dynLim)
    /\ ep' = [pc |-> "incr", clearAt |-> 0]
    /\ UNCHANGED <<probes, limVars, smpVars, admVars, activeW, hardPause, transient>>

\* lines 1613-1658: active is incremented, the protocol and credential lists
\* are built
GateIncr ==
    /\ ep.pc = "incr"
    /\ activeW' = activeW + 1
    /\ \E job \in {j \in JobAttrs : j.SchemeHint = "" /\ j.port = "9999"},
          run \in GateRuns :
          /\ run.mode = mode
          /\ run.inline = job.InlineAuth
          /\ ep' = EpStart(mode, job, run.auths) @@ [clearAt |-> ep.clearAt]
    /\ UNCHANGED <<probes, limVars, smpVars, admVars, hardPause, transient>>

\* lines 1693-1699: after the Outcome is sent, active is decremented and the
\* worker receives the next Job
GateDec ==
    /\ ep.pc = "sent"
    /\ activeW' = activeW - 1
    /\ ep' = GateIdle
    /\ probes' = <<>>
    /\ UNCHANGED <<limVars, smpVars, admVars, hardPause, transient>>

\* lines 1427-1501: one tick of the controller
GateTick ==
    /\ \E fd \in GateFds :
          /\ LimiterTick(fd, used)
          /\ fdCount' = fd
          /\ hardPause' = IF AdjustLimit(fd, used).hard THEN "set"
                          ELSE IF memPaused' = 0 THEN "none" ELSE hardPause
    /\ ep' = IF "clearAt" \in DOMAIN ep /\ (memPaused = 0 \/ memPaused' = 0)
             THEN [ep EXCEPT !.clearAt = Len(probes)] ELSE ep
    /\ UNCHANGED <<probes, used, activeW>>

NextGate ==
    /\ \/ GateCheck
       \/ GateIncr
       \/ (EpProbe /\ UNCHANGED <<limVars, smpVars, admVars, activeW, hardPause, transient>>)
       \/ (EpFinish /\ UNCHANGED <<limVars, smpVars, admVars, activeW, hardPause, transient>>)
       \/ GateDec
       \/ GateTick
    /\ UNCHANGED <<mode, cntVars, dispVars, chanVars, wrkVars, wrtVars, mpc,
                   histVars, trk, start, rt>>

SpecGate == InitGate /\ [][NextGate]_vars

\* ------------------------------------------- failures by an HTTP status
\* The errors a prober returns when the proxy answered 407 or 401, as the
\* substrings of the lower-cased message classifyErr looks for:
\*   line 800, every prober: "ipinfo status=<code>";
\*   line 223 under line 793, the HTTPS prober: "ipinfo request failed: ...
\*     proxy CONNECT failed: <status line>", the status line being the proxy's;
\*   the HTTP prober, line 793: net/http answers a refused CONNECT with the
\*     reason phrase of the proxy's status line as the error.
\* The proxy chooses the text of its status line after the code (Phrases).
Phrases == SUBSET {"tls", "eof", "connection refused"}
StatusErr(code) == {"ipinfo", code, "code=" \o code}
ConnectErr(code, phrase) ==
    {"ipinfo", "connect failed", code, "code=" \o code} \cup phrase
ReasonErr(code, phrase) ==
    {"ipinfo", IF code = "407" THEN "proxy authentication" ELSE "unauthorized"}
        \cup phrase
AuthStatusReturns ==
    [tp \in {"http", "https", "socks5"} |->
        {Ok} \cup {Failed(StatusErr(code)) : code \in {"407", "401"}}
        \cup (IF tp = "https"
              THEN {Failed(ConnectErr(code, ph)) : code \in {"407", "401"}, ph \in Phrases}
              ELSE IF tp = "http"
              THEN {Failed(ReasonErr(code, ph)) : code \in {"407", "401"}, ph \in Phrases}
              ELSE {})]

\* The probe loop on an endpoint whose proxy answers 407 or 401 or lets the
\* probe through.
InitAuthStatus ==
    /\ mode \in {"http", "https", "socks5", "all"}
    /\ LimiterInit(65536)
    /\ PipeInit
    /\ \E job \in {j \in JobAttrs : j.SchemeHint = "" /\ j.port = "9999"} :
          ep = EpStart(mode, job, <<"">>)
    /\ probes = <<>> /\ trk = NoProber /\ start = NoStart /\ rt = NoLineOut

NextAuthStatus ==
    /\ EpProbeOf(AuthStatusReturns) \/ EpFinish
    /\ UNCHANGED <<mode, limVars, smpVars, admVars, activeW, dispVars,
                   chanVars, wrkVars, wrtVars, mpc, histVars, transient,
                   hardPause, cntVars, trk, start, rt>>

SpecAuthStatus == InitAuthStatus /\ [][NextAuthStatus]_vars

\* ------------------------------------------ the input file, read twice
\* main reads the input file once in countWorkItems (line 1835) and the
\* dispatcher reads it again (lines 2028-2074).  A line of the file is a line
\* of InputLines with its length in MiB; start.file is the file and
\* start.total what countWorkItems returned.
FileLines ==
    {[body |-> "", pad |-> FALSE, host |-> "", size |-> 1],
     [body |-> "junk", pad |-> FALSE, host |-> "", size |-> 1],
     [body |-> "endpoint", pad |-> FALSE, host |-> "8.8.8.8", size |-> 1],
     [body |-> "endpoint", pad |-> FALSE, host |-> "8.8.8.8", size |-> 5]}
Files == UNION {[1..n -> FileLines] : n \in 1..MaxLines}

\* bufio.Scanner.Scan with sc.Buffer(_, maxMiB MiB): the number of lines it
\* returns before it stops, at the end of the file or at a line that does not
\* fit the buffer
RECURSIVE Scanned(_, _)
Scanned(file, maxMiB) ==
    IF file = <<>> \/ Head(file).size > maxMiB THEN 0
    ELSE 1 + Scanned(Tail(file), maxMiB)

\* countWorkItems, lines 1739-1757, with its buffer of 8 MiB (line 1748)
countWorkItems(file) ==
    Cardinality({i \in 1..Scanned(file, 8) : ~IsIgnoredLine(file[i])})

InitItems ==
    /\ mode = "auto"
    /\ LimiterInit(65536)
    /\ PipeInit
    /\ ep = EpIdle /\ probes = <<>> /\ trk = NoProber /\ rt = NoLineOut
    /\ \E file \in Files : start = [pc |-> "file", file |-> file, total |-> 0]

\* lines 1835-1841: total is counted; main exits when it is 0
ItemsCount ==
    /\ start.pc = "file"
    /\ start' = [start EXCEPT
                    !.total = countWorkItems(start.file),
                    !.pc = IF countWorkItems(start.file) = 0 THEN "fatal" ELSE "run"]
    /\ UNCHANGED <<mode, limVars, smpVars, admVars, activeW, cntVars, dispVars,
                   chanVars, wrkVars, wrtVars, mpc, histVars, transient,
                   hardPause, ep, probes, trk, rt>>

\* lines 2035-2074: the dispatcher's scanner has a buffer of 4 MiB (line 2036);
\* sc.Scan() returns the next line, or false and the channel is closed
ItemsDispatcher ==
    /\ \/ /\ lineNo < Scanned(start.file, 4)
          /\ DispLine(start.file[lineNo + 1])
       \/ (DispSkipDone /\ dline' = dline)
       \/ /\ dpc = "scan" /\ lineNo = Scanned(start.file, 4)
          /\ jobsClosed' = TRUE
          /\ dpc' = "closed"
          /\ UNCHANGED <<lineNo, njobs, total, cntVars, jobs, outcomes,
                         outClosed, dline>>
    /\ UNCHANGED <<mode, limVars, smpVars, admVars, activeW, wrkVars, wrtVars, mpc,
                   histVars, transient, hardPause, epVars>>

NextItems ==
    \/ ItemsCount
    \/ /\ start.pc = "run"
       /\ ItemsDispatcher \/ (\E w \in W : Worker(w)) \/ Writer \/ Main

SpecItems == InitItems /\ [][NextItems]_vars

\* --------------------------------------------- ticks after the pressure
\* The controller at the sizes of the source, for a run of RecoveryWorkers
\* workers.  start.low is history: the number of ticks in a row, up to now,
\* whose sample was below every threshold (counted up to RecoveryTicks + 1),
\* and start.wasPaused whether the pause flag was set when that row began.
RecoveryWorkers == {1000}

\* A sample below every row of the table and below the resume thresholds.
LowSample(fd, u) ==
    /\ fd < FdResume /\ fd <= fdWarn
    /\ ~UsedAbove(u, 60) /\ ~FdAbove(fd, 60)

\* The ticks the low row needs from minLimit to hardCap (lines 1478-1485), and
\* the two ticks that clear the pause flag (lines 1488-1499).
RecoveryTicks ==
    LET up == (hardCap - minLimit + stepUp - 1) \div stepUp
    IN  IF up < 2 THEN 2 ELSE up

InitRecovery ==
    /\ mode = "auto"
    /\ PipeInit
    /\ \E workers \in RecoveryWorkers, fdl \in FdLimits :
          LET b == LimiterBounds(workers, fdl, SourceSizes)
          IN  /\ fdLimit = fdl /\ memLimit = MemCap
              /\ hardCap = b.hardCap /\ minLimit = b.minLimit
              /\ stepUp = b.stepUp /\ fdWarn = b.fdWarn /\ fdHard = b.fdHard
              /\ curLimit = b.hardCap /\ dynLim = b.hardCap
    /\ paused = FALSE /\ memPaused = 0
    /\ fdCount = 0 /\ used = 0
    /\ transient = FALSE /\ hardPause = "none"
    /\ ep = EpIdle /\ probes = <<>> /\ trk = NoProber /\ rt = NoLineOut
    /\ start = [pc |-> "ticks", low |-> 0, wasPaused |-> FALSE]

\* lines 1427-1501: one tick
RecoveryTick ==
    /\ \E s \in RowSamples :
          /\ LimiterTick(s[1], s[2])
          /\ start' = IF LowSample(s[1], s[2])
                      THEN [start EXCEPT
                               !.low = IF @ > RecoveryTicks THEN @ ELSE @ + 1,
                               !.wasPaused = IF start.low = 0 THEN memPaused = 1
                                             ELSE @]
                      ELSE [start EXCEPT !.low = 0, !.wasPaused = FALSE]
    /\ UNCHANGED <<mode, smpVars, activeW, cntVars, dispVars, chanVars,
                   wrkVars, wrtVars, mpc, histVars, hardPause,
                   ep, probes, trk, rt>>

SpecRecovery == InitRecovery /\ [][RecoveryTick]_vars

\* ------------------------------------------- CounterMap under concurrency
\* Inc as the goroutines of a run can interleave it on one CounterMap (here
\* failReasons): m.LoadOrStore is one step of sync.Map, atomic.AddUint64 the
\* next.  start.pc[g] is where goroutine g is inside Inc, start.key[g] the key
\* whose cell it holds, start.calls[g] its calls so far and start.n (history)
\* the calls with a non-empty key.
CounterKeys == {"", "auth", "other"}

InitCounter ==
    /\ mode = "auto"
    /\ LimiterInit(65536)
    /\ PipeInit
    /\ ep = EpIdle /\ probes = <<>> /\ trk = NoProber /\ rt = NoLineOut
    /\ start = [pc |-> [g \in W |-> "idle"], key |-> [g \in W |-> ""],
                calls |-> [g \in W |-> 0], n |-> 0]

\* lines 478-482: return on the empty key; else LoadOrStore(key, new(uint64))
\* stores a zero cell unless the key has one, and returns the key's cell
CounterLoadOrStore(g, key) ==
    /\ start.pc[g] = "idle" /\ start.calls[g] < MaxLines
    /\ IF key = ""
       THEN /\ start' = [start EXCEPT !.calls[g] = @ + 1]
            /\ UNCHANGED failReasons
       ELSE /\ start' = [start EXCEPT !.calls[g] = @ + 1, !.pc[g] = "cell",
                                      !.key[g] = key, !.n = @ + 1]
            /\ failReasons' =
                  IF key \in DOMAIN failReasons THEN failReasons
                  ELSE [k \in DOMAIN failReasons \cup {key} |->
                           IF k = key THEN 0 ELSE failReasons[k]]
    /\ UNCHANGED <<mode, limVars, smpVars, admVars, activeW, done, okIP, okLine,
                   fail, skip, skipReasons, dispVars, chanVars, wrkVars,
                   wrtVars, mpc, histVars, transient, hardPause, ep, probes,
                   trk, rt>>

\* line 483: atomic.AddUint64(v.(*uint64), 1)
CounterAdd(g) ==
    /\ start.pc[g] = "cell"
    /\ failReasons' = [failReasons EXCEPT ![start.key[g]] = @ + 1]
    /\ start' = [start EXCEPT !.pc[g] = "idle", !.key[g] = ""]
    /\ UNCHANGED <<mode, limVars, smpVars, admVars, activeW, done, okIP, okLine,
                   fail, skip, skipReasons, dispVars, chanVars, wrkVars,
                   wrtVars, mpc, histVars, transient, hardPause, ep, probes,
                   trk, rt>>

NextCounter ==
    \E g \in W : (\E key \in CounterKeys : CounterLoadOrStore(g, key)) \/ CounterAdd(g)

SpecCounter == InitCounter /\ [][NextCounter]_vars

\* ================================================================== claims
UnreachableClasses == {"reset", "unreachable", "refused"}

\* C1: with the controller enabled, active <= dynamic_limit in every state
\* that is not part of the transient following a reduction of the limit by
\* the controller (from the reduction until active is within the limit and no
\* worker is between its comparison and its increment); workers running the
\* admission step concurrently never drive active above an unchanged limit.
C1_ActiveWithinLimit == activeW <= dynLim \/ transient

\* C2: when the run has terminated, done = ok_endpoints + fail + skip, and it
\* is the number of work items of the file.
C2_DoneIsSum ==
    mpc = "finished" => (done = okIP + fail + skip /\ done = total)
C2_Witness ==
    mpc = "finished" /\ skip >= 1 /\ okIP >= 1 /\ fail >= 1 /\ okLine > okIP

\* C3: every Job put on the job channel is taken by exactly one worker, which
\* enqueues exactly one Outcome for it, and the writer increments done exactly
\* once for that Outcome: never more than once at any time, and exactly once
\* when the run has terminated.
C3_OncePerJob ==
    /\ \A j \in JobIds :
          /\ taken[j] <= (IF j <= njobs THEN 1 ELSE 0)
          /\ sent[j] <= taken[j]
          /\ counted[j] <= sent[j]
    /\ mpc = "finished" =>
          /\ \A j \in 1..njobs : taken[j] = 1 /\ sent[j] = 1 /\ counted[j] = 1
          /\ done = njobs + skip
C3_Witness ==
    mpc = "finished" /\ njobs = MaxLines /\ \A j \in JobIds : counted[j] = 1

\* C4: under fair scheduling of dispatcher, workers, writer and main, with
\* every probe returning, a run in which the pause flag ends up clear
\* terminates, whatever the probes returned.
C4_Terminates == <>[](memPaused = 0) => <>(mpc = "finished")
C4_Witness ==
    /\ mpc = "finished" /\ wrpc = "exited" /\ \A w \in W : wpc[w] = "exited"
    /\ jobsClosed /\ outClosed /\ outcomes = <<>>
    /\ memPaused = 0 /\ dynLim = minLimit
    /\ fail >= 1 /\ done = MaxLines

\* C5 (as amended): in a tick whose fd_count exceeds the hard threshold fdHard
\* (0.45 * fd_cap brought into [fdWarn + 2000, 80000], fdWarn being
\* 0.35 * fd_cap brought into [8000, 50000]), the pause flag is set and
\* dynamic_limit equals min_limit at the end of the tick, whatever the limit
\* before and whatever the memory ratio.
C5_HardTick == fdCount > fdHard => (memPaused = 1 /\ dynLim = minLimit)
C5_Witness ==
    /\ fdCount > fdHard /\ memPaused = 1 /\ dynLim = minLimit
    /\ used * 100 < 65 * memLimit
\* C5 as stated: the hard threshold is 0.45 * fd_cap itself.
C5_Original ==
    fdCount * 100 > 45 * fdLimit => (memPaused = 1 /\ dynLim = minLimit)

\* C6: while the pause flag is set since a hard-FD tick and active is above
\* min_limit, no step increases active.
C6_NoIncreaseUnderHardPause ==
    [][(hardPause = "set" /\ activeW > minLimit) => activeW' <= activeW]_vars

\* C7: a pause flag set by a hard-FD tick goes from set to clear only in a
\* tick whose sample has fd_count < max(4000, 0.8 * fdWarn) and
\* rss / mem_cap < 0.65; in every other tick it stays set.
C7_ClearOnlyOnResume ==
    [][(hardPause = "set" /\ memPaused = 1 /\ memPaused' = 0) =>
          (fdCount' < Max(4000, (fdWarn * 8) \div 10)
             /\ used' * 100 < 65 * memLimit)]_vars
C7_Witness == hardPause = "over" /\ memPaused = 0

\* C8: a probe that failed with reset, unreachable or refused is the last
\* probe of its endpoint, in every mode.
C8_ShortCircuit ==
    \A i \in 1..Len(probes) :
        (~probes[i].ok /\ probes[i].class \in UnreachableClasses)
            => i = Len(probes)
C8_Witness ==
    /\ ep.pc = "sent" /\ mode = "all" /\ Len(probes) >= 2
    /\ probes[Len(probes)].class = "reset"
    /\ ep.ti <= Len(ep.types) /\ ep.ai < Len(ep.authList)

\* C9: in auto mode a successful probe is the last probe of its endpoint, and
\* in auto mode and in the single-protocol modes the Outcome carries at most
\* one Success.
C9_AutoStopsAtFirstSuccess ==
    mode # "all" =>
        /\ mode = "auto" =>
              \A i \in 1..Len(probes) : probes[i].ok => i = Len(probes)
        /\ ep.pc = "sent" => Len(OutcomeOf(ep).Successes) <= 1
C9_Witness ==
    /\ ep.pc = "sent" /\ mode = "auto" /\ Len(OutcomeOf(ep).Successes) = 1
    /\ ep.ti < Len(ep.types) /\ Len(probes) >= 2

\* C10: in all mode, unless a probe of the endpoint failed with reset,
\* unreachable or refused, every protocol of the order has been probed when
\* the Outcome is sent; the Outcome carries at most one Success per protocol.
C10_AllTriesEvery ==
    (mode = "all" /\ ep.pc = "sent") =>
        /\ (\A i \in 1..Len(probes) : probes[i].class \notin UnreachableClasses)
              => \A k \in 1..Len(ep.types) :
                    \E i \in 1..Len(probes) : probes[i].tp = ep.types[k]
        /\ \A i, j \in 1..Len(OutcomeOf(ep).Successes) :
              OutcomeOf(ep).Successes[i].ProxyType
                  = OutcomeOf(ep).Successes[j].ProxyType => i = j
C10_Witness ==
    /\ mode = "all" /\ ep.pc = "sent"
    /\ Len(OutcomeOf(ep).Successes) = 3
    /\ probes[1].ok

\* C11: when the run has terminated, ok_lines >= ok_endpoints; the two are
\* equal in auto mode and in the single-protocol modes, and
\* ok_lines <= 3 * ok_endpoints in all mode.
C11_LinesPerEndpoint ==
    mpc = "finished" =>
        /\ okLine >= okIP
        /\ mode # "all" => okLine = okIP
        /\ mode = "all" => okLine <= 3 * okIP
C11_Witness ==
    mpc = "finished" /\ mode = "all" /\ okIP >= 2 /\ okLine = 3 * okIP

\* C12: for the Outcome of one endpoint exactly one of ok_endpoints and fail
\* is incremented: ok_endpoints if and only if some (protocol, credential)
\* probe succeeded, and then no failure-reason counter changes; fail
\* otherwise, with exactly one failure reason counted.
C12_OkXorFail ==
    ep.pc = "counted" =>
        /\ okIP + fail = 1
        /\ done = 1
        /\ okIP = 1 <=> (\E i \in 1..Len(probes) : probes[i].ok)
        /\ okIP = 1 => (DOMAIN failReasons = {} /\ okLine >= 1)
        /\ fail = 1 =>
              /\ okLine = 0
              /\ \E k \in DOMAIN failReasons :
                    DOMAIN failReasons = {k} /\ failReasons[k] = 1
C12_Witness ==
    /\ ep.pc = "counted" /\ okIP = 1 /\ fail = 0
    /\ Len(probes) >= 2 /\ ~probes[1].ok /\ DOMAIN failReasons = {}

\* The priority order of the failure kinds as the specification lists it.
SpecPriority ==
    <<"auth", "ipinfo", "non204", "connect_fail", "tls", "timeout", "refused",
      "unreachable", "reset", "dial", "dns", "eof", "https_to_http", "other">>

NonEmptyCred(a) == a # ""

\* C14: the credentials tried for an endpoint always start with the empty
\* credential; with a non-empty inline credential the list is exactly the
\* empty credential followed by the inline one, and otherwise it is the empty
\* credential followed by the non-empty entries of the default list, in the
\* order of that list.
C14_AuthList ==
    ep.pc = "setup" =>
        /\ ep.authList[1] = ""
        /\ IF ep.job.InlineAuth \notin {NilAuth, ""}
           THEN ep.authList = <<"", ep.job.InlineAuth>>
           ELSE ep.authList = <<"">> \o SelectSeq(ep.auths, NonEmptyCred)

C14_Witness ==
    /\ ep.pc = "setup"
    /\ ep.job.InlineAuth = NilAuth
    /\ ep.auths = <<"u2", "", "u1">>
    /\ ep.authList = <<"", "u2", "u1">>

C14_WitnessInline ==
    /\ ep.pc = "setup"
    /\ ep.job.InlineAuth = "in"
    /\ ep.auths = <<"u1", "u2">>
    /\ ep.authList = <<"", "in">>

\* ---------------------------------------------------------------------- C15
ProbeOk(p) == p.ok
TypeIndex(types, tp) == CHOOSE k \in 1..Len(types) : types[k] = tp
EarlierSameType(i) == {j \in 1..(i - 1) : probes[j].tp = probes[i].tp}

\* C15: the Successes of an endpoint are its successful probes in the order
\* they were made, which is the order of the protocols; the probes of one
\* protocol go through the credential list in list order and every one before
\* the last failed, so the Success of a protocol is the first credential that
\* succeeded and no credential is probed for the protocol after it.
C15_FirstWinner ==
    /\ LET oks == SelectSeq(probes, ProbeOk)
       IN  /\ Len(ep.successes) = Len(oks)
           /\ \A k \in 1..Len(oks) :
                 /\ ep.successes[k].ProxyType = ProxyTypeOf(oks[k].tp)
                 /\ ep.successes[k].Auth = oks[k].auth
    /\ \A i \in 1..(Len(probes) - 1) :
          TypeIndex(ep.types, probes[i].tp)
              <= TypeIndex(ep.types, probes[i + 1].tp)
    /\ \A i \in 1..Len(probes) :
          /\ probes[i].auth = ep.authList[Cardinality(EarlierSameType(i)) + 1]
          /\ \A j \in EarlierSameType(i) : ~probes[j].ok

C15_Witness ==
    /\ ep.pc = "sent" /\ mode = "all"
    /\ Len(ep.authList) = 2
    /\ Len(probes) = 4
    /\ probes[1].ok /\ probes[1].auth = ""
    /\ ~probes[2].ok /\ probes[3].ok /\ probes[3].auth = ep.authList[2]
    /\ ~probes[4].ok
    /\ Len(ep.successes) = 2

\* ---------------------------------------------------------------------- C16
\* The HTTPS probe of the endpoint met a plaintext-HTTP signature and an HTTP
\* probe with the same credential succeeded: the one testHTTPSProxy makes
\* itself, or a later testOne call for http.
PlainHTTPFound ==
    \E i \in 1..Len(probes) :
        /\ probes[i].tp = "https" /\ probes[i].fallback
        /\ \/ probes[i].ok
           \/ \E j \in 1..Len(probes) :
                 /\ probes[j].tp = "http" /\ probes[j].ok
                 /\ probes[j].auth = probes[i].auth

\* C16: in auto mode, when the HTTPS probe of an endpoint met a
\* plaintext-HTTP signature and an HTTP probe with the same credential
\* succeeded, exactly one line is written for the endpoint, its scheme is
\* http, and the endpoint is not counted as failed.
C16_FallbackLineIsHTTP ==
    (mode = "auto" /\ ep.pc = "counted" /\ PlainHTTPFound) =>
        /\ Len(WrittenLines(OutcomeOf(ep))) = 1
        /\ WrittenLines(OutcomeOf(ep))[1].scheme = "http"
        /\ fail = 0 /\ okIP = 1

\* ---------------------------------------------------------------------- C17
HttpFirst   == <<"http", "https", "socks5">>
HttpsFirst  == <<"https", "http", "socks5">>
Socks5First == <<"socks5", "http", "https">>

\* C17: in auto and all modes the protocol order of a Job is a permutation
\* of {http, https, socks5} fixed by the scheme hint and the port: the hint
\* decides when it is http, https, socks5 or s5; otherwise ports 443, 8443,
\* 9443 give https first, ports 80, 8080, 3128, 8000, 8888 give http first,
\* port 1080 gives socks5 first and every other port gives https first.
C17_OrderByHintAndPort ==
    (ep.pc = "setup" /\ mode \in {"auto", "all"}) =>
        /\ Len(ep.types) = 3
        /\ {ep.types[k] : k \in 1..3} = {"http", "https", "socks5"}
        /\ ep.job.SchemeHint = "http" => ep.types = HttpFirst
        /\ ep.job.SchemeHint = "https" => ep.types = HttpsFirst
        /\ ep.job.SchemeHint \in {"socks5", "s5"} => ep.types = Socks5First
        /\ ep.job.SchemeHint \notin {"http", "https", "socks5", "s5"} =>
              /\ ep.job.port \in {"443", "8443", "9443"}
                    => ep.types = HttpsFirst
              /\ ep.job.port \in {"80", "8080", "3128", "8000", "8888"}
                    => ep.types = HttpFirst
              /\ ep.job.port = "1080" => ep.types = Socks5First
              /\ ep.job.port \notin {"443", "8443", "9443", "80", "8080",
                                     "3128", "8000", "8888", "1080"}
                    => ep.types = HttpsFirst

C17_Witness ==
    /\ ep.pc = "setup" /\ mode = "all"
    /\ ep.job.SchemeHint = "s5" /\ ep.job.port = "8443"
    /\ ep.job.InlineAuth = "in"
    /\ ep.types = Socks5First

\* ------------------------------------------------------------ C18, C19, C20
\* The step in which the dispatcher reads a line; dline' is that line.
ReadsLine == lineNo' = lineNo + 1
IsBadLine(l) == ~IsIgnoredLine(l) /\ parseProxyLineErr(l)
IsEndpointLine(l) == ~IsIgnoredLine(l) /\ ~parseProxyLineErr(l)
InCdnTable(host) == \E e \in CdnTable : host \in e.ips
ProviderOf(host) == (CHOOSE e \in CdnTable : host \in e.ips).Provider
\* What a skipped line still has to do while the dispatcher is between its
\* skip and its done: nothing but add one to done.
SkipDoneStep ==
    \/ dpc' = "skipDone" /\ UNCHANGED <<lineNo, njobs, skip, skipReasons>>
    \/ /\ dpc' = "scan" /\ done' = done + 1
       /\ UNCHANGED <<lineNo, njobs, jobs, skip, skipReasons, okIP, okLine,
                      fail, failReasons>>

\* C18: a line parseProxyLine rejects adds one to skip and one to the
\* bad_line skip reason, then one to done, and puts nothing on the job
\* channel; ok_endpoints and fail are left alone by it.
C18_BadLine ==
    [][ /\ (ReadsLine /\ IsBadLine(dline')) =>
              /\ skip' = skip + 1
              /\ skipReasons' = Inc(skipReasons, "bad_line")
              /\ "bad_line" \in DOMAIN skipReasons'
              /\ dpc' = "skipDone"
              /\ UNCHANGED <<done, njobs, jobs, okIP, okLine, fail, failReasons>>
        /\ (dpc = "skipDone" /\ IsBadLine(dline)) => SkipDoneStep ]_vars

C18_Witness ==
    /\ dline.body = "junk" /\ dpc = "scan" /\ lineNo = 2
    /\ skip = 1 /\ done >= 1 /\ njobs = 1
    /\ "bad_line" \in DOMAIN skipReasons /\ skipReasons["bad_line"] = 1

\* C19: a line that is empty, holds white space only or starts with # leaves
\* done, skip, ok_endpoints, fail and the reason counters as they are and
\* puts nothing on the job channel.
C19_IgnoredLine ==
    [][ (ReadsLine /\ IsIgnoredLine(dline')) =>
            /\ dline'.body \in {"", "#"}
            /\ UNCHANGED <<done, skip, okIP, okLine, fail, failReasons,
                           skipReasons, njobs, jobs, dpc>> ]_vars

C19_Witness ==
    /\ dline = [body |-> "", pad |-> TRUE, host |-> ""]
    /\ lineNo = 2 /\ njobs = 1 /\ skip = 0

\* C20: an endpoint whose host is an IP address of the CDN table adds one to
\* skip and one to the reason cdn_<provider>, then one to done, and is not put
\* on the job channel; an endpoint whose address is not in the table, or whose
\* host is a name, is put on the job channel and not skipped.
C20_CdnSkip ==
    [][ /\ (ReadsLine /\ IsEndpointLine(dline')) =>
              IF InCdnTable(dline'.host)
              THEN /\ skip' = skip + 1
                   /\ skipReasons'
                        = Inc(skipReasons, "cdn_" \o ProviderOf(dline'.host))
                   /\ dpc' = "skipDone"
                   /\ UNCHANGED <<done, njobs, jobs, okIP, okLine, fail,
                                  failReasons>>
              ELSE /\ njobs' = njobs + 1
                   /\ jobs' = Append(jobs, njobs + 1)
                   /\ UNCHANGED <<done, skip, skipReasons, dpc>>
        /\ (dpc = "skipDone" /\ IsEndpointLine(dline)) =>
              InCdnTable(dline.host) /\ SkipDoneStep ]_vars

C20_Witness ==
    /\ dline.host = "151.101.1.1" /\ dpc = "scan" /\ lineNo = 2
    /\ skip = 1 /\ njobs = 1 /\ done >= 1
    /\ "cdn_fastly" \in DOMAIN skipReasons /\ skipReasons["cdn_fastly"] = 1

\* ---------------------------------------------------------------------- C21
\* C21: when a prober call has returned, every socket that was opened and
\* registered with a conn-tracker of the call is closed and the trackers are
\* empty, whenever the dial of the socket completed.
C21_NoSocketAfterReturn ==
    trk.pc = "returned" =>
        /\ \A t \in Trackers : trk.conns[t] = {}
        /\ \A s \in Socks : trk.sock[s] # "open"

\* ---------------------------------------------------------------------- C22
\* C22: without -unsafe at least 1000 workers are started whatever -c asks
\* for; with -unsafe a positive -c is the number of workers.
C22_WorkerFloor ==
    start.pc \in {"capped", "limiter"} =>
        /\ ~start.flags.unsafe => start.workers >= 1000
        /\ (start.flags.unsafe /\ start.flags.requested > 0)
              => start.workers = start.flags.requested

C22_Witness ==
    /\ start.pc = "capped"
    /\ ~start.flags.unsafe /\ start.flags.requested = 1
    /\ start.flags.fdl = 1024 /\ start.flags.memL = 65536
    /\ start.workers = 1000

\* ---------------------------------------------------------------------- C27
\* C27: the bounds the controller derives from the configured concurrency c
\* are hard_cap = c, min_limit = max(64, c/10) but never more than hard_cap,
\* and step_up = max(8, c/80).
C27_DerivedBounds ==
    start.pc = "limiter" =>
        /\ hardCap = start.workers
        /\ minLimit = Min(Max(64, start.workers \div 10), hardCap)
        /\ stepUp = Max(8, start.workers \div 80)

\* ---------------------------------------------------------------------- C23
\* C23: a line the writer emits, parsed again by parseProxyLine, gives the
\* host:port of the Result, its credential (none when the Result has the
\* empty credential) and the scheme of the line as the scheme hint.
C23_RoundTrip ==
    rt.pc = "parsed" =>
        /\ ~rt.back.err
        /\ rt.back.addr = rt.res.ProxyAddr
        /\ rt.back.schemeHint = rt.line.scheme
        /\ rt.back.hasAuth = (rt.res.Auth # [User |-> <<>>, Pass |-> <<>>])
        /\ rt.back.hasAuth => rt.back.inlineAuth = rt.res.Auth

\* ---------------------------------------------------------------------- C24
\* C24: in every tick whose sample has rss/mem_cap > 0.88 or
\* fd_count/fd_cap > 0.85, and whose fd_count is not above the hard
\* threshold, the pause flag is set and dynamic_limit becomes
\* max(min_limit, 0.7 * dynamic_limit), also when fd_count is above the warn
\* threshold.
C24_MostSevereRow ==
    [][ ((UsedAbove(used', 88) \/ FdAbove(fdCount', 85)) /\ fdCount' <= fdHard)
            => /\ memPaused' = 1
               /\ dynLim' = Max(minLimit, (dynLim * 7) \div 10) ]_vars

\* ---------------------------------------------------------------------- C28
\* The sample of the last tick is below every threshold: fd_count not above
\* warn and both ratios not above 0.60.
AllBelow(fd, u) == fd <= fdWarn /\ ~UsedAbove(u, 60) /\ ~FdAbove(fd, 60)
\* The sample is in the 0.60 band: not all below, and no higher row applies.
InBand60(fd, u) ==
    /\ fd <= fdWarn /\ ~UsedAbove(u, 70) /\ ~FdAbove(fd, 70)
    /\ (UsedAbove(u, 60) \/ FdAbove(fd, 60))

\* C28: a tick whose sample is below every threshold leaves dynamic_limit at
\* min(dynamic_limit + step_up, hard_cap) and does not set the pause flag; a
\* tick in the 0.60 band leaves dynamic_limit as it is.
C28_LowRows ==
    [][ /\ AllBelow(fdCount', used') =>
              /\ dynLim' = Min(dynLim + stepUp, hardCap)
              /\ memPaused = 0 => memPaused' = 0
        /\ InBand60(fdCount', used') => dynLim' = dynLim ]_vars

C28_Witness ==
    /\ AllBelow(fdCount, used)
    /\ dynLim = minLimit + stepUp /\ dynLim < hardCap
    /\ memPaused = 1

\* C25: the admission check is made before every probe: a worker starts a
\* testOne call, the first of an endpoint or a further protocol or credential
\* attempt, only if the pause flag has been clear at some moment since its
\* previous call (or since it began to wait for admission).
C25_CheckBeforeEveryProbe ==
    [][Len(probes') > Len(probes)
          => (memPaused = 0 \/ ep.clearAt = Len(probes))]_vars

\* C26: an HTTPS attempt whose TLS request failed with a plaintext-HTTP
\* signature, and whose retry as an HTTP probe failed too, is recorded with
\* the failure kind https_to_http.
C26_FallbackFailureKind ==
    \A i \in 1..Len(probes) :
        (probes[i].tp = "https" /\ probes[i].fallback /\ ~probes[i].ok)
            => probes[i].class = "https_to_http"

\* C29: the outcome channel is closed only when every worker has exited, and
\* the job channel only when the dispatcher has made its last send, so no
\* send meets a closed channel; and when main reads the final counters the
\* writer has received and counted every Outcome that was sent.
C29_OrderedShutdown ==
    /\ outClosed => \A w \in W : wpc[w] = "exited"
    /\ jobsClosed => dpc = "closed"
    /\ mpc = "finished" =>
          /\ outcomes = <<>> /\ wrpc = "exited"
          /\ \A j \in JobIds : counted[j] = sent[j]
C29_Witness ==
    /\ mpc = "finished" /\ jobsClosed /\ outClosed
    /\ njobs >= 2 /\ sent[njobs] = 1 /\ counted = sent

\* C30: in the modes http, https and socks5 the protocol list of the Job is
\* that one protocol whatever its scheme hint and port, every probe made is of
\* that protocol, and every line written for the endpoint carries its scheme.
C30_FixedModeOneProtocol ==
    mode \in {"http", "https", "socks5"} =>
        /\ ep.types = <<mode>>
        /\ \A i \in 1..Len(probes) : probes[i].tp = mode
        /\ \A k \in 1..Len(WrittenLines(OutcomeOf(ep))) :
              WrittenLines(OutcomeOf(ep))[k].scheme = mode
C30_Witness ==
    /\ mode = "socks5" /\ ep.pc = "counted"
    /\ Len(probes) = 2 /\ probes[2].ok /\ probes[2].auth = "in"
    /\ Len(WrittenLines(OutcomeOf(ep))) = 1
    /\ \E job \in JobAttrs :
          /\ job.SchemeHint = "http" /\ job.port = "443"
          /\ ep.types = TypesFor(mode, job)

\* ---------------------------------------------------------------------- C31
\* C31: with no explicit concurrency (and the limits detected, -unsafe not
\* given) the worker count is cpu_count*2000 (cpu_count*3000 from 8 CPUs on)
\* floored at 1000 and then capped by (fd_cap*0.70)/4 and by
\* 0.60*mem_cap/mem_per_job_bytes.
C31_AutoSizing ==
    (/\ start.pc \in {"capped", "limiter"}
     /\ start.flags.requested <= 0 /\ ~start.flags.unsafe
     /\ start.flags.memL > 0) =>
        LET cpu   == start.flags.cpuNum
            base  == Max(1000, IF cpu >= 8 THEN cpu * 3000 ELSE cpu * 2000)
            byFd  == ((start.flags.fdl * 70) \div 100) \div 4
            byMem == ((start.flags.memL * 60) \div 100) \div 128
        IN  start.workers = Min(base, Min(byFd, byMem))

\* ---------------------------------------------------------------------- C32
\* C32: a probe that failed because the proxy answered 407 or 401 is classified
\* auth, whichever prober saw it and whatever else the message carries, and it
\* does not make the worker skip the remaining protocols as unreachable.
C32_StatusIsAuth ==
    /\ \A i \in 1..Len(probes) : ~probes[i].ok => probes[i].class = "auth"
    /\ ~ep.ipUnreachable

\* ---------------------------------------------------------------------- C33
\* C33: once the controller has started, min_limit <= dynamic_limit <=
\* hard_cap in every state, whatever samples the ticks read.
C33_LimitWithinBounds ==
    start.pc = "limiter" => (minLimit <= dynLim /\ dynLim <= hardCap)
C33_Witness ==
    /\ start.pc = "limiter" /\ start.workers = 1279
    /\ dynLim = minLimit /\ minLimit = 128 /\ hardCap = 1279 /\ memPaused = 1

\* ---------------------------------------------------------------------- C34
\* C34: active is the number of workers between their increment and their
\* decrement, those blocked on the send of their Outcome or in the delay after
\* it included; it is never below zero nor above the number of workers, and
\* it is 0 when the run has terminated.
C34_ActiveIsSlots ==
    /\ activeW = Cardinality({w \in W : wpc[w] \in {"send", "dec"}})
    /\ activeW >= 0 /\ activeW <= Workers
    /\ mpc = "finished" => activeW = 0
C34_Witness ==
    /\ activeW = Workers
    /\ Len(outcomes) = QueueCap
    /\ \E w, v \in W : wpc[w] = "send" /\ wpc[v] = "dec"

\* ---------------------------------------------------------------------- C35
\* C35: in every state, also before termination, done <= ok_endpoints + fail
\* + skip, and the sum is ahead of done by at most 2 (one item of the
\* dispatcher and one of the writer counted in their category, not yet in
\* done).
C35_DoneBehindSum ==
    /\ done <= okIP + fail + skip
    /\ okIP + fail + skip - done <= 2
C35_Witness ==
    /\ okIP + fail + skip = done + 2
    /\ dpc = "skipDone" /\ wrpc = "done" /\ mpc # "finished"

\* ---------------------------------------------------------------------- C36
\* C36: when the run has terminated, done is the total counted at start-up,
\* the number of lines of the file that are neither blank nor comments, so
\* that left = total - done is 0.
C36_DoneIsTotal ==
    mpc = "finished" => (done = start.total /\ start.total - done = 0)

\* ---------------------------------------------------------------------- C37
\* C37: once the samples of RecoveryTicks ticks in a row have been below every
\* threshold, the pause flag is clear and dynamic_limit equals hard_cap, and
\* both stay so for as long as the samples stay low.
C37_Recovers ==
    start.low >= RecoveryTicks => (memPaused = 0 /\ dynLim = hardCap)
C37_Witness ==
    /\ start.low > RecoveryTicks /\ start.wasPaused
    /\ memPaused = 0 /\ dynLim = hardCap

\* ---------------------------------------------------------------------- C38
\* The tick that read the sample (fdCount, used) triggered a pause: it took the
\* hard-FD row or the 0.88/0.85 row.
TriggeredPause == AdjustLimit(fdCount, used).hard \/ AdjustLimit(fdCount, used).shouldPause

\* C38: after a tick that triggered a pause, by the hard-FD row or by the
\* memory/FD-ratio row, the pause flag is still set at the end of the next
\* tick; and the flag goes from set to clear only in a tick whose sample has
\* fd_count < resume threshold and rss/mem_cap < 0.65 and which does not
\* itself trigger a pause.
C38_RatioPauseHysteresis ==
    [][/\ TriggeredPause => memPaused' = 1
       /\ (memPaused = 1 /\ memPaused' = 0) =>
             /\ fdCount' < FdResume /\ used' * 100 < 65 * memLimit
             /\ ~TriggeredPause']_vars

\* ---------------------------------------------------------------------- C39
\* The sum of the counters of a CounterMap.
RECURSIVE SumOf(_)
SumOf(cm) ==
    IF DOMAIN cm = {} THEN 0
    ELSE LET k == CHOOSE x \in DOMAIN cm : TRUE
         IN  cm[k] + SumOf([x \in DOMAIN cm \ {k} |-> cm[x]])
\* The kinds of the closed set a probe failure can have, and the skip reasons.
ProbeKinds == {SpecPriority[i] : i \in 1..Len(SpecPriority)}
SkipKinds == {"bad_line"} \cup {"cdn_" \o p : p \in {"cloudflare", "fastly", "cloudfront"}}

CounterMapExact ==
    SumOf(failReasons) + Cardinality({g \in W : start.pc[g] = "cell"}) = start.n
CounterMapShared ==
    /\ \E g, h \in W : g # h /\ start.pc[g] = "cell" /\ start.pc[h] = "cell"
                       /\ start.key[g] = start.key[h]
                       /\ failReasons[start.key[g]] = 0

====
